---- MODULE Spec2Model ----
(***************************************************************************)
(* A model of the isolation game's session engine (GameEngine.js): the     *)
(* board, the legal-move rule, the session lifecycle (create, place the    *)
(* starting position, human move, AI move, undo), the end-of-game rule and *)
(* the move chooser the AI move consults.                                  *)
(***************************************************************************)
EXTENDS Integers, Sequences, FiniteSets, TLC

---------------------------------------------------------------------------
(* Program constants (GameEngine constructor).                             *)

BOARD_SIZE == 7

EMPTY == "."

BLOCKED == "_"

HUMAN == "H"

AI == "A"

\* The 8 neighbour offsets, in the order the constructor lists them.
directions ==
  << <<-1, 0>>, <<1, 0>>, <<0, -1>>, <<0, 1>>,
     <<-1, -1>>, <<-1, 1>>, <<1, -1>>, <<1, 1>> >>

\* JavaScript's null for a position, and null/undefined for the winner.
Null == <<>>

NoWinner == "null"

---------------------------------------------------------------------------
(* Bounds of the model.                                                    *)

\* Sessions a run creates (createGame draws a fresh identifier each time).
MaxGames == 1

\* Clients stop asking for moves once this many cells are Blocked: in the
\* runs with every call, and in the longer runs of calls that succeed.
MaxBlocked == 5

MaxPlayBlocked == 7

\* Human requests name cells of the AreaSize x AreaSize bottom-right square.
AreaSize == 3

---------------------------------------------------------------------------
(* Board and move rules.                                                   *)

\* A position is <<row, col>>, rows and columns counted from 0.  A board is
\* the rows one after the other: cell <<row, col>> is entry Idx(<<row, col>>).
Cells == (0 .. BOARD_SIZE - 1) \X (0 .. BOARD_SIZE - 1)

Idx(pos) == pos[1] * BOARD_SIZE + pos[2] + 1

Pos(i) == <<(i - 1) \div BOARD_SIZE, (i - 1) % BOARD_SIZE>>

At(board, pos) == board[Idx(pos)]

SetCell(board, pos, v) == [board EXCEPT ![Idx(pos)] = v]

initializeBoard == [i \in 1 .. BOARD_SIZE * BOARD_SIZE |-> EMPTY]

isValidPosition(row, col) ==
  row >= 0 /\ row < BOARD_SIZE /\ col >= 0 /\ col < BOARD_SIZE

\* The neighbour of pos in direction i.
Neighbour(pos, i) == <<pos[1] + directions[i][1], pos[2] + directions[i][2]>>

\* getValidMoves without the test that the neighbour is EMPTY.
getValidMoves_anyCell(board, pos) ==
  LET cand == [i \in 1 .. Len(directions) |-> Neighbour(pos, i)]
  IN  SelectSeq(cand, LAMBDA c : isValidPosition(c[1], c[2]))

\* The list getValidMoves builds: one entry per direction, in direction
\* order, for the neighbours that are in bounds and EMPTY.
getValidMoves(board, pos) ==
  LET cand == [i \in 1 .. Len(directions) |-> Neighbour(pos, i)]
  IN  SelectSeq(cand, LAMBDA c : isValidPosition(c[1], c[2]) /\ At(board, c) = EMPTY)

Range(s) == {s[i] : i \in 1 .. Len(s)}

CountCells(board, v) == Cardinality({i \in 1 .. Len(board) : board[i] = v})

Abs(x) == IF x < 0 THEN -x ELSE x

---------------------------------------------------------------------------
(* Sessions and statistics.                                                *)

\* The session object createGame builds.  isSimulation is absent (falsy) on
\* a canonical session and true on a clone; winner is absent until set;
\* createdAt is the reading of the clock (in ms) when the session was made,
\* here at time 0.
createGame ==
  [ board         |-> initializeBoard,
    humanPos      |-> Null,
    aiPos         |-> Null,
    currentPlayer |-> HUMAN,
    gamePhase     |-> "starting",
    moveHistory   |-> <<>>,
    winner        |-> NoWinner,
    createdAt     |-> 0,
    isSimulation  |-> FALSE ]

InitStats == [totalGames |-> 0, humanWins |-> 0, aiWins |-> 0]

\* endGame that counts every game as a win of the human.
endGame_humanCounter(game, stats, winner) ==
  [ game  |-> [game EXCEPT !.gamePhase = "ended", !.winner = winner],
    stats |-> IF ~game.isSimulation
              THEN [stats EXCEPT
                      !.totalGames = @ + 1,
                      !.humanWins = @ + 1]
              ELSE stats,
    recorded |-> ~game.isSimulation ]

\* endGame: the session ends with the given winner; unless the session is a
\* simulation clone the statistics count it and the game is handed to
\* experienceReplay.recordGame (recorded).  (averageGameLength, a running
\* floating-point mean, is left out.)
endGame(game, stats, winner) ==
  [ game  |-> [game EXCEPT !.gamePhase = "ended", !.winner = winner],
    stats |-> IF ~game.isSimulation
              THEN [stats EXCEPT
                      !.totalGames = @ + 1,
                      !.humanWins = IF winner = HUMAN THEN @ + 1 ELSE @,
                      !.aiWins = IF winner = HUMAN THEN @ ELSE @ + 1]
              ELSE stats,
    recorded |-> ~game.isSimulation ]

\* checkGameEnd, looking at the software's moves only.
checkGameEnd_softwareOnly(game, stats) ==
  LET aiMoves == getValidMoves(game.board, game.aiPos)
  IN  IF Len(aiMoves) = 0 THEN endGame(game, stats, HUMAN)
      ELSE [game |-> game, stats |-> stats, recorded |-> FALSE]

\* checkGameEnd: the human's moves are looked at first.
checkGameEnd(game, stats) ==
  LET humanMoves == getValidMoves(game.board, game.humanPos)
      aiMoves == getValidMoves(game.board, game.aiPos)
  IN  IF Len(humanMoves) = 0 THEN endGame(game, stats, AI)
      ELSE IF Len(aiMoves) = 0 THEN endGame(game, stats, HUMAN)
      ELSE [game |-> game, stats |-> stats, recorded |-> FALSE]

\* checkGameEndSimulation: the same rule, on a clone, without endGame.
checkGameEndSimulation(game, stats) ==
  LET humanMoves == getValidMoves(game.board, game.humanPos)
      aiMoves == getValidMoves(game.board, game.aiPos)
  IN  IF Len(humanMoves) = 0
      THEN [game |-> [game EXCEPT !.gamePhase = "ended", !.winner = AI],
            stats |-> stats, recorded |-> FALSE]
      ELSE IF Len(aiMoves) = 0
      THEN [game |-> [game EXCEPT !.gamePhase = "ended", !.winner = HUMAN],
            stats |-> stats, recorded |-> FALSE]
      ELSE [game |-> game, stats |-> stats, recorded |-> FALSE]

\* movePlayer, with the record's snapshot taken before the marker is set.
movePlayer_snapshotBefore(game, stats, player, newPos, isSimulation) ==
  LET oldPos == IF player = HUMAN THEN game.humanPos ELSE game.aiPos
      b1 == IF oldPos # Null
            THEN SetCell(game.board, oldPos, BLOCKED)
            ELSE game.board
      b2 == SetCell(b1, newPos, player)
      rec == [player |-> player, from |-> oldPos, to |-> newPos, board |-> b1]
      g1 == [game EXCEPT
               !.board = b2,
               !.humanPos = IF player = HUMAN THEN newPos ELSE @,
               !.aiPos = IF player = HUMAN THEN @ ELSE newPos,
               !.moveHistory = Append(@, rec)]
  IN  IF isSimulation
      THEN checkGameEndSimulation(g1, stats)
      ELSE checkGameEnd(g1, stats)

\* movePlayer, leaving the cell the mover came from Empty.
movePlayer_freesSource(game, stats, player, newPos, isSimulation) ==
  LET oldPos == IF player = HUMAN THEN game.humanPos ELSE game.aiPos
      b1 == IF oldPos # Null
            THEN SetCell(game.board, oldPos, EMPTY)
            ELSE game.board
      b2 == SetCell(b1, newPos, player)
      rec == [player |-> player, from |-> oldPos, to |-> newPos, board |-> b2]
      g1 == [game EXCEPT
               !.board = b2,
               !.humanPos = IF player = HUMAN THEN newPos ELSE @,
               !.aiPos = IF player = HUMAN THEN @ ELSE newPos,
               !.moveHistory = Append(@, rec)]
  IN  IF isSimulation
      THEN checkGameEndSimulation(g1, stats)
      ELSE checkGameEnd(g1, stats)

\* movePlayer: block the old cell, mark the new one, set the mover's
\* position, push the record with a snapshot of the board, check the end.
movePlayer(game, stats, player, newPos, isSimulation) ==
  LET oldPos == IF player = HUMAN THEN game.humanPos ELSE game.aiPos
      b1 == IF oldPos # Null
            THEN SetCell(game.board, oldPos, BLOCKED)
            ELSE game.board
      b2 == SetCell(b1, newPos, player)
      rec == [player |-> player, from |-> oldPos, to |-> newPos, board |-> b2]
      g1 == [game EXCEPT
               !.board = b2,
               !.humanPos = IF player = HUMAN THEN newPos ELSE @,
               !.aiPos = IF player = HUMAN THEN @ ELSE newPos,
               !.moveHistory = Append(@, rec)]
  IN  IF isSimulation
      THEN checkGameEndSimulation(g1, stats)
      ELSE checkGameEnd(g1, stats)

\* cloneGame: a deep copy flagged as a simulation.
cloneGame(game) == [game EXCEPT !.isSimulation = TRUE]

---------------------------------------------------------------------------
(* The position evaluator.  A value is the pair <<num, den>> of the        *)
(* integers whose quotient is returned.                                     *)

\* The last cell, in row-major order, that holds v (the scan in
\* heuristicEvaluation overwrites the position at every hit), or Null.
LastCell(board, v) ==
  LET S == {i \in 1 .. Len(board) : board[i] = v}
  IN  IF S = {} THEN Null
      ELSE Pos(CHOOSE i \in S : \A j \in S : j <= i)

\* heuristicEvaluation returning the ratio aiMoves / humanMoves.
heuristicEvaluation_ratio(board) ==
  LET humanPos == LastCell(board, HUMAN)
      aiPos == LastCell(board, AI)
      humanMoves == IF humanPos # Null THEN Len(getValidMoves(board, humanPos)) ELSE 0
      aiMoves == IF aiPos # Null THEN Len(getValidMoves(board, aiPos)) ELSE 0
  IN  IF aiMoves = 0 THEN <<0, 1>>
      ELSE IF humanMoves = 0 THEN <<1, 1>>
      ELSE <<aiMoves, humanMoves>>

\* heuristicEvaluation that looks at the human's moves first.
heuristicEvaluation_humanFirst(board) ==
  LET humanPos == LastCell(board, HUMAN)
      aiPos == LastCell(board, AI)
      humanMoves == IF humanPos # Null THEN Len(getValidMoves(board, humanPos)) ELSE 0
      aiMoves == IF aiPos # Null THEN Len(getValidMoves(board, aiPos)) ELSE 0
  IN  IF humanMoves = 0 THEN <<1, 1>>
      ELSE IF aiMoves = 0 THEN <<0, 1>>
      ELSE <<aiMoves, humanMoves + aiMoves>>

heuristicEvaluation(board) ==
  LET humanPos == LastCell(board, HUMAN)
      aiPos == LastCell(board, AI)
      humanMoves == IF humanPos # Null THEN Len(getValidMoves(board, humanPos)) ELSE 0
      aiMoves == IF aiPos # Null THEN Len(getValidMoves(board, aiPos)) ELSE 0
  IN  IF aiMoves = 0 THEN <<0, 1>>
      ELSE IF humanMoves = 0 THEN <<1, 1>>
      ELSE <<aiMoves, humanMoves + aiMoves>>

\* The learned model is an opaque function of the board.  A behaviour nn of
\* the model is [loaded, fav, lo, hi, outcome].  With outcome "value" the
\* prediction answers hi for a board with the AI marker on cell fav and lo
\* for any other board (lo and hi in [0, 1], the range of the sigmoid
\* output unit); with "throws" the prediction throws, which
\* NeuralNetwork.evaluatePosition catches, answering 0.5; with "timeout" no
\* answer comes within the 50 ms that evaluatePosition waits.
neuralNetworkEvaluate(board, nn) ==
  IF nn.outcome = "timeout" THEN [value |-> Null, error |-> "Neural network timeout"]
  ELSE IF nn.outcome = "throws" THEN [value |-> <<1, 2>>, error |-> "none"]
  ELSE [value |-> IF At(board, nn.fav) = AI THEN nn.hi ELSE nn.lo, error |-> "none"]

\* evaluatePosition: the heuristic when the model is not loaded; otherwise
\* the model's answer, or the heuristic when the wait for it is rejected.
evaluatePosition(board, nn) ==
  IF ~nn.loaded THEN heuristicEvaluation(board)
  ELSE LET r == neuralNetworkEvaluate(board, nn)
       IN  IF r.error = "none" THEN r.value ELSE heuristicEvaluation(board)

---------------------------------------------------------------------------
(* The move chooser.                                                       *)

maxSimulations == 200

\* The function f on 1 .. n as a sequence (its entries computed once).
AsSeq(f, n) == SubSeq(f, 1, n)

\* a/b > c/d for fractions with positive denominators.
FracGt(x, y) == x[1] * y[2] > y[1] * x[2]

\* The final loop of enhancedMCTS: bestMove starts as the first candidate,
\* bestScore as 0, and a candidate replaces it only with a strictly greater
\* win rate.
RECURSIVE pickBest(_, _, _, _)
pickBest(winRate, i, bestIdx, bestScore) ==
  IF i > Len(winRate) THEN bestIdx
  ELSE IF FracGt(winRate[i], bestScore)
       THEN pickBest(winRate, i + 1, i, winRate[i])
       ELSE pickBest(winRate, i + 1, bestIdx, bestScore)

\* enhancedMCTS after `simulations` evaluations in all, for a call that ends
\* on a whole round: the candidates are visited round-robin in list order,
\* each on a fresh clone; with an evaluator that is a function of the board
\* a candidate's sum is its visits times its value.  The means are taken
\* exactly here: with the same number of visits for every candidate the
\* rounding of the sums does not change which mean is greatest
\* (WholeRoundsAgree).
enhancedMCTS(game, stats, validMoves, nn, simulations) ==
  LET n == Len(validMoves)
      visits == AsSeq([i \in 1 .. n |->
                   (simulations \div n) + (IF i <= simulations % n THEN 1 ELSE 0)], n)
      value == AsSeq([i \in 1 .. n |->
                  evaluatePosition(
                    movePlayer(cloneGame(game), stats, AI, validMoves[i], TRUE).game.board,
                    nn)], n)
      scores == AsSeq([i \in 1 .. n |-> <<visits[i] * value[i][1], value[i][2]>>], n)
      winRate == AsSeq([i \in 1 .. n |->
                    IF visits[i] > 0
                    THEN <<scores[i][1], scores[i][2] * visits[i]>>
                    ELSE <<0, 1>>], n)
  IN  validMoves[pickBest(winRate, 1, 1, <<0, 1>>)]

\* The evaluations of a run that the deadline does not cut short: whole
\* rounds until the count reaches maxSimulations.
FullRun(n) == n * ((maxSimulations + n - 1) \div n)

---------------------------------------------------------------------------
(* The arithmetic of the scores.  A JavaScript number is an IEEE 754       *)
(* binary64 value: `+` and `/` give the exact result rounded to 53         *)
(* significant bits, ties to even.  Only non-negative finite values occur. *)
(* A natural of any size is a sequence of digits in base 2^15, lowest      *)
(* first, without leading zeros; a number is [m, e], worth m * 2^e, with m *)
(* of exactly 53 bits, or DoubleZero.                                      *)

Precision == 53

Base == 2 ^ 15

RECURSIVE BigOf(_)
BigOf(n) == IF n = 0 THEN <<>> ELSE <<n % Base>> \o BigOf(n \div Base)

RECURSIVE BigTrim(_)
BigTrim(a) ==
  IF a # <<>> /\ a[Len(a)] = 0 THEN BigTrim(SubSeq(a, 1, Len(a) - 1)) ELSE a

RECURSIVE BigAddC(_, _, _)
BigAddC(a, b, carry) ==
  IF a = <<>> /\ b = <<>>
  THEN IF carry = 0 THEN <<>> ELSE <<carry>>
  ELSE LET x == IF a = <<>> THEN 0 ELSE Head(a)
           y == IF b = <<>> THEN 0 ELSE Head(b)
           s == x + y + carry
       IN  <<s % Base>> \o BigAddC(IF a = <<>> THEN a ELSE Tail(a),
                                   IF b = <<>> THEN b ELSE Tail(b),
                                   s \div Base)

BigAdd(a, b) == BigAddC(a, b, 0)

\* a * c for 0 < c <= Base.
RECURSIVE BigMulC(_, _, _)
BigMulC(a, c, carry) ==
  IF a = <<>>
  THEN IF carry = 0 THEN <<>> ELSE <<carry>>
  ELSE LET s == Head(a) * c + carry
       IN  <<s % Base>> \o BigMulC(Tail(a), c, s \div Base)

BigMulSmall(a, c) == BigMulC(a, c, 0)

\* Quotient and remainder of a by c, 0 < c <= Base, from the top digit down.
RECURSIVE BigDivStep(_, _, _, _, _)
BigDivStep(a, c, i, rem, acc) ==
  IF i = 0 THEN [q |-> BigTrim(acc), r |-> rem]
  ELSE LET cur == rem * Base + a[i]
       IN  BigDivStep(a, c, i - 1, cur % c, <<cur \div c>> \o acc)

BigDivSmall(a, c) == BigDivStep(a, c, Len(a), 0, <<>>)

RECURSIVE BitLen(_)
BitLen(n) == IF n = 0 THEN 0 ELSE 1 + BitLen(n \div 2)

BigBitLen(a) == IF a = <<>> THEN 0 ELSE 15 * (Len(a) - 1) + BitLen(a[Len(a)])

BigOdd(a) == a # <<>> /\ a[1] % 2 = 1

\* a * 2^k.
BigShl(a, k) ==
  IF a = <<>> THEN a
  ELSE [i \in 1 .. k \div 15 |-> 0] \o BigMulSmall(a, 2 ^ (k % 15))

\* a \div 2^k, and whether a non-zero bit was shifted out.
BigShr(a, k) ==
  LET limbs == k \div 15
      high == IF limbs >= Len(a) THEN <<>> ELSE SubSeq(a, limbs + 1, Len(a))
      d == BigDivSmall(high, 2 ^ (k % 15))
  IN  [q |-> d.q,
       lost |-> d.r # 0 \/ \E i \in 1 .. Len(a) : i <= limbs /\ a[i] # 0]

\* a > b for naturals.
RECURSIVE BigGtFrom(_, _, _)
BigGtFrom(a, b, i) ==
  IF i = 0 THEN FALSE
  ELSE IF a[i] # b[i] THEN a[i] > b[i]
  ELSE BigGtFrom(a, b, i - 1)

BigGt(a, b) ==
  IF Len(a) # Len(b) THEN Len(a) > Len(b) ELSE BigGtFrom(a, b, Len(a))

DoubleZero == [m |-> <<>>, e |-> 0]

\* The number nearest to the real x, M * 2^e <= x < (M + 1) * 2^e, where
\* `more` tells that x is above M * 2^e: round to nearest, ties to even.
\* (When `more` holds M has more than Precision bits.)
RoundDouble(M, e, more) ==
  LET L == BigBitLen(M)
  IN  IF M = <<>> THEN DoubleZero
      ELSE IF L <= Precision
      THEN [m |-> BigShl(M, Precision - L), e |-> e - (Precision - L)]
      ELSE LET s == L - Precision
               t == BigShr(M, s - 1)
               half == BigOdd(t.q)
               q == BigShr(t.q, 1).q
               up == half /\ (t.lost \/ more \/ BigOdd(q))
               q2 == IF up THEN BigAdd(q, <<1>>) ELSE q
           IN  IF BigBitLen(q2) > Precision
               THEN [m |-> BigShr(q2, 1).q, e |-> e + s + 1]
               ELSE [m |-> q2, e |-> e + s]

\* x + y.
DoubleAdd(x, y) ==
  IF x = DoubleZero THEN y
  ELSE IF y = DoubleZero THEN x
  ELSE LET e == IF x.e < y.e THEN x.e ELSE y.e
       IN  RoundDouble(BigAdd(BigShl(x.m, x.e - e), BigShl(y.m, y.e - e)), e, FALSE)

\* x / c for an integer 0 < c <= Base: the quotient is taken with two bits
\* more than Precision and the remainder tells whether it is exact.
DoubleDiv(x, c) ==
  IF x = DoubleZero THEN x
  ELSE LET d == BigDivSmall(BigShl(x.m, 17), c)
       IN  RoundDouble(d.q, x.e - 17, d.r # 0)

\* x > y.
DoubleGt(x, y) ==
  IF x = DoubleZero THEN FALSE
  ELSE IF y = DoubleZero THEN TRUE
  ELSE x.e > y.e \/ (x.e = y.e /\ BigGt(x.m, y.m))

\* The number num / den of two integers, den <= Base.
Double(frac) == DoubleDiv(RoundDouble(BigOf(frac[1]), 0, FALSE), frac[2])

---------------------------------------------------------------------------
(* The move chooser, step by step.                                          *)

\* The simulation of one candidate without the move being made on the clone.
simulateMove_unmoved(game, stats, move) ==
  [game |-> cloneGame(game), stats |-> stats, recorded |-> FALSE]

\* The simulation of one candidate: the move is made on a clone of the
\* session, as a simulation.
simulateMove(game, stats, move) ==
  movePlayer(cloneGame(game), stats, AI, move, TRUE)

\* cloneGame leaving the rows of the board shared with the original.
cloneShares_board == {"board"}

\* The members of a clone that are the very objects of the original, so that
\* a write through the clone shows in the original: none.  The board is
\* rebuilt through JSON, the history is a new array, the positions are new
\* arrays, and the other members are copied by value.
cloneShares == {}

\* The session as a simulation on its clone leaves it.
AfterSimulation(game, simGame) ==
  [f \in DOMAIN game |-> IF f \in cloneShares THEN simGame[f] ELSE game[f]]

\* The selection loop of enhancedMCTS on numbers: the index of bestMove.
RECURSIVE bestIndex(_, _, _, _)
bestIndex(winRate, i, bestIdx, bestScore) ==
  IF i > Len(winRate) THEN bestIdx
  ELSE IF DoubleGt(winRate[i], bestScore)
       THEN bestIndex(winRate, i + 1, i, winRate[i])
       ELSE bestIndex(winRate, i + 1, bestIdx, bestScore)

\* The selection with bestMove starting as null instead of the first candidate.
bestWinRate_fromNull(validMoves, scores, visits) ==
  LET n == Len(validMoves)
      winRate == AsSeq([i \in 1 .. n |->
                    IF visits[i] > 0 THEN DoubleDiv(scores[i], visits[i])
                    ELSE DoubleZero], n)
  IN  IF \A i \in 1 .. n : ~DoubleGt(winRate[i], DoubleZero) THEN Null
      ELSE validMoves[bestIndex(winRate, 1, 1, DoubleZero)]

\* The selection returning null when no candidate was visited.
bestWinRate_unvisited(validMoves, scores, visits) ==
  LET n == Len(validMoves)
      winRate == AsSeq([i \in 1 .. n |->
                    IF visits[i] > 0 THEN DoubleDiv(scores[i], visits[i])
                    ELSE DoubleZero], n)
  IN  IF \A i \in 1 .. n : visits[i] = 0 THEN Null
      ELSE validMoves[bestIndex(winRate, 1, 1, DoubleZero)]

\* The move enhancedMCTS returns for the sums and visit counts it has.
bestWinRate(validMoves, scores, visits) ==
  LET n == Len(validMoves)
      winRate == AsSeq([i \in 1 .. n |->
                    IF visits[i] > 0 THEN DoubleDiv(scores[i], visits[i])
                    ELSE DoubleZero], n)
  IN  validMoves[bestIndex(winRate, 1, 1, DoubleZero)]

---------------------------------------------------------------------------
(* The lifecycle operations.  Each takes the session store and the         *)
(* statistics and yields them as the call leaves them, with the error it   *)
(* throws ("none" when it returns).                                        *)

\* engine tells whether the call ran the move chooser; recordMove and
\* recordGame list, in order, the calls of experienceReplay.recordMove and
\* experienceReplay.recordGame the operation made.
Result(games, stats, error) ==
  [games |-> games, stats |-> stats, error |-> error, engine |-> FALSE,
   recordMove |-> <<>>, recordGame |-> <<>>]

\* The arguments of a call experienceReplay.recordMove(gameId, player, move,
\* board).
Observation(gameId, player, move, board) ==
  [gameId |-> gameId, player |-> player, move |-> move, board |-> board]

\* The call experienceReplay.recordGame(game) made by endGame, if any.
GameRecords(gameId, m) ==
  IF m.recorded
  THEN << [id |-> gameId, winner |-> m.game.winner,
           gameLength |-> Len(m.game.moveHistory)] >>
  ELSE <<>>

\* placeStartingPosition without the test of the phase.
placeStartingPosition_anyPhase(games, stats, gameId, row, col, random) ==
  IF gameId \notin DOMAIN games
  THEN Result(games, stats, "Invalid game state")
  ELSE IF ~isValidPosition(row, col) \/ At(games[gameId].board, <<row, col>>) # EMPTY
  THEN Result(games, stats, "Position already occupied")
  ELSE
    LET game == games[gameId]
        b1 == SetCell(game.board, <<row, col>>, HUMAN)
        center == <<BOARD_SIZE \div 2, BOARD_SIZE \div 2>>
        adjacentMoves == getValidMoves(b1, center)
        randomMove == adjacentMoves[(random % Len(adjacentMoves)) + 1]
        g1 == IF At(b1, center) = EMPTY
              THEN [game EXCEPT !.board = SetCell(b1, center, AI),
                                !.humanPos = <<row, col>>,
                                !.aiPos = center]
              ELSE IF Len(adjacentMoves) > 0
              THEN [game EXCEPT !.board = SetCell(b1, randomMove, AI),
                                !.humanPos = <<row, col>>,
                                !.aiPos = randomMove]
              ELSE [game EXCEPT !.board = b1, !.humanPos = <<row, col>>]
        g2 == [g1 EXCEPT !.gamePhase = "playing", !.currentPlayer = HUMAN]
    IN  Result([games EXCEPT ![gameId] = g2], stats, "none")

\* placeStartingPosition that puts the AI on the centre without looking at it.
placeStartingPosition_onCentre(games, stats, gameId, row, col, random) ==
  IF gameId \notin DOMAIN games \/ games[gameId].gamePhase # "starting"
  THEN Result(games, stats, "Invalid game state")
  ELSE IF ~isValidPosition(row, col) \/ At(games[gameId].board, <<row, col>>) # EMPTY
  THEN Result(games, stats, "Position already occupied")
  ELSE
    LET game == games[gameId]
        b1 == SetCell(game.board, <<row, col>>, HUMAN)
        center == <<BOARD_SIZE \div 2, BOARD_SIZE \div 2>>
        g1 == [game EXCEPT !.board = SetCell(b1, center, AI),
                           !.humanPos = <<row, col>>,
                           !.aiPos = center]
        g2 == [g1 EXCEPT !.gamePhase = "playing", !.currentPlayer = HUMAN]
    IN  Result([games EXCEPT ![gameId] = g2], stats, "none")

placeStartingPosition(games, stats, gameId, row, col, random) ==
  IF gameId \notin DOMAIN games \/ games[gameId].gamePhase # "starting"
  THEN Result(games, stats, "Invalid game state")
  ELSE IF ~isValidPosition(row, col) \/ At(games[gameId].board, <<row, col>>) # EMPTY
  THEN Result(games, stats, "Position already occupied")
  ELSE
    LET game == games[gameId]
        b1 == SetCell(game.board, <<row, col>>, HUMAN)
        center == <<BOARD_SIZE \div 2, BOARD_SIZE \div 2>>
        adjacentMoves == getValidMoves(b1, center)
        randomMove == adjacentMoves[(random % Len(adjacentMoves)) + 1]
        g1 == IF At(b1, center) = EMPTY
              THEN [game EXCEPT !.board = SetCell(b1, center, AI),
                                !.humanPos = <<row, col>>,
                                !.aiPos = center]
              ELSE IF Len(adjacentMoves) > 0
              THEN [game EXCEPT !.board = SetCell(b1, randomMove, AI),
                                !.humanPos = <<row, col>>,
                                !.aiPos = randomMove]
              ELSE [game EXCEPT !.board = b1, !.humanPos = <<row, col>>]
        g2 == [g1 EXCEPT !.gamePhase = "playing", !.currentPlayer = HUMAN]
    IN  Result([games EXCEPT ![gameId] = g2], stats, "none")

\* makeHumanMove without the test of whose turn it is.
makeHumanMove_anyTurn(games, stats, gameId, row, col) ==
  IF gameId \notin DOMAIN games \/ games[gameId].gamePhase # "playing"
  THEN Result(games, stats, "Invalid move")
  ELSE
    LET game == games[gameId]
        validMoves == getValidMoves(game.board, game.humanPos)
    IN  IF ~(\E i \in 1 .. Len(validMoves) : validMoves[i] = <<row, col>>)
        THEN Result(games, stats, "Invalid move")
        ELSE
          LET m == movePlayer(game, stats, HUMAN, <<row, col>>, FALSE)
              g2 == [m.game EXCEPT !.currentPlayer = AI]
          IN  [Result([games EXCEPT ![gameId] = g2], m.stats, "none")
                EXCEPT !.recordGame = GameRecords(gameId, m),
                       !.recordMove =
                         <<Observation(gameId, HUMAN, <<row, col>>, g2.board)>>]

\* makeHumanMove that blocks the cell it leaves before it tests the
\* destination.
makeHumanMove_blockFirst(games, stats, gameId, row, col) ==
  IF gameId \notin DOMAIN games
     \/ games[gameId].gamePhase # "playing"
     \/ games[gameId].currentPlayer # HUMAN
  THEN Result(games, stats, "Invalid move")
  ELSE
    LET game == games[gameId]
        validMoves == getValidMoves(game.board, game.humanPos)
    IN  IF ~(\E i \in 1 .. Len(validMoves) : validMoves[i] = <<row, col>>)
        THEN Result([games EXCEPT ![gameId].board =
                       SetCell(game.board, game.humanPos, BLOCKED)],
                    stats, "Invalid move")
        ELSE
          LET m == movePlayer(game, stats, HUMAN, <<row, col>>, FALSE)
              g2 == [m.game EXCEPT !.currentPlayer = AI]
          IN  [Result([games EXCEPT ![gameId] = g2], m.stats, "none")
                EXCEPT !.recordGame = GameRecords(gameId, m),
                       !.recordMove =
                         <<Observation(gameId, HUMAN, <<row, col>>, g2.board)>>]

\* makeHumanMove that hands the Recorder the board as it was before the move.
makeHumanMove_boardBefore(games, stats, gameId, row, col) ==
  IF gameId \notin DOMAIN games
     \/ games[gameId].gamePhase # "playing"
     \/ games[gameId].currentPlayer # HUMAN
  THEN Result(games, stats, "Invalid move")
  ELSE
    LET game == games[gameId]
        validMoves == getValidMoves(game.board, game.humanPos)
    IN  IF ~(\E i \in 1 .. Len(validMoves) : validMoves[i] = <<row, col>>)
        THEN Result(games, stats, "Invalid move")
        ELSE
          LET m == movePlayer(game, stats, HUMAN, <<row, col>>, FALSE)
              g2 == [m.game EXCEPT !.currentPlayer = AI]
          IN  [Result([games EXCEPT ![gameId] = g2], m.stats, "none")
                EXCEPT !.recordGame = GameRecords(gameId, m),
                       !.recordMove =
                         <<Observation(gameId, HUMAN, <<row, col>>, game.board)>>]

makeHumanMove(games, stats, gameId, row, col) ==
  IF gameId \notin DOMAIN games
     \/ games[gameId].gamePhase # "playing"
     \/ games[gameId].currentPlayer # HUMAN
  THEN Result(games, stats, "Invalid move")
  ELSE
    LET game == games[gameId]
        validMoves == getValidMoves(game.board, game.humanPos)
    IN  IF ~(\E i \in 1 .. Len(validMoves) : validMoves[i] = <<row, col>>)
        THEN Result(games, stats, "Invalid move")
        ELSE
          LET m == movePlayer(game, stats, HUMAN, <<row, col>>, FALSE)
              g2 == [m.game EXCEPT !.currentPlayer = AI]
          IN  [Result([games EXCEPT ![gameId] = g2], m.stats, "none")
                EXCEPT !.recordGame = GameRecords(gameId, m),
                       !.recordMove =
                         <<Observation(gameId, HUMAN, <<row, col>>, g2.board)>>]

\* makeAIMove once the chooser has answered: the move is made, the turn
\* passes to the human, the move is handed to the Recorder.
moveChosen(games, stats, gameId, bestMove) ==
  LET m == movePlayer(games[gameId], stats, AI, bestMove, FALSE)
      g2 == [m.game EXCEPT !.currentPlayer = HUMAN]
  IN  [Result([games EXCEPT ![gameId] = g2], m.stats, "none")
        EXCEPT !.engine = TRUE,
               !.recordGame = GameRecords(gameId, m),
               !.recordMove = <<Observation(gameId, AI, bestMove, g2.board)>>]

\* makeAIMove without the test of the phase.
makeAIMove_anyPhase(games, stats, gameId, nn, simulations) ==
  IF gameId \notin DOMAIN games
     \/ games[gameId].currentPlayer # AI
  THEN Result(games, stats, "Invalid AI move")
  ELSE
    LET game == games[gameId]
        validMoves == getValidMoves(game.board, game.aiPos)
    IN  IF Len(validMoves) = 0
        THEN LET e == endGame(game, stats, HUMAN)
             IN  [Result([games EXCEPT ![gameId] = e.game], e.stats, "none")
                   EXCEPT !.recordGame = GameRecords(gameId, e)]
        ELSE
          moveChosen(games, stats, gameId,
                     enhancedMCTS(game, stats, validMoves, nn, simulations))

\* makeAIMove that gives the game to the AI when the AI cannot move.
makeAIMove_stuckWins(games, stats, gameId, nn, simulations) ==
  IF gameId \notin DOMAIN games
     \/ games[gameId].gamePhase # "playing"
     \/ games[gameId].currentPlayer # AI
  THEN Result(games, stats, "Invalid AI move")
  ELSE
    LET game == games[gameId]
        validMoves == getValidMoves(game.board, game.aiPos)
    IN  IF Len(validMoves) = 0
        THEN LET e == endGame(game, stats, AI)
             IN  [Result([games EXCEPT ![gameId] = e.game], e.stats, "none")
                   EXCEPT !.recordGame = GameRecords(gameId, e)]
        ELSE
          moveChosen(games, stats, gameId,
                     enhancedMCTS(game, stats, validMoves, nn, simulations))

makeAIMove(games, stats, gameId, nn, simulations) ==
  IF gameId \notin DOMAIN games
     \/ games[gameId].gamePhase # "playing"
     \/ games[gameId].currentPlayer # AI
  THEN Result(games, stats, "Invalid AI move")
  ELSE
    LET game == games[gameId]
        validMoves == getValidMoves(game.board, game.aiPos)
    IN  IF Len(validMoves) = 0
        THEN LET e == endGame(game, stats, HUMAN)
             IN  [Result([games EXCEPT ![gameId] = e.game], e.stats, "none")
                   EXCEPT !.recordGame = GameRecords(gameId, e)]
        ELSE
          moveChosen(games, stats, gameId,
                     enhancedMCTS(game, stats, validMoves, nn, simulations))

\* The index (from 1; 0 for the code's -1) of the last record by the human.
lastHumanMoveIndex(moveHistory) ==
  LET idx == {i \in 1 .. Len(moveHistory) : moveHistory[i].player = HUMAN}
  IN  IF idx = {} THEN 0 ELSE CHOOSE i \in idx : \A j \in idx : j <= i

\* The history as undoLastMove leaves it: the loop pops the records from
\* the last human record on, and one more pop follows (a pop of an empty
\* array does nothing).
undoHistory(moveHistory) ==
  LET h1 == SubSeq(moveHistory, 1, lastHumanMoveIndex(moveHistory) - 1)
  IN  IF Len(h1) = 0 THEN h1 ELSE SubSeq(h1, 1, Len(h1) - 1)

\* undoLastMove without the test that the session has not ended.
undoLastMove_inEnded(games, stats, gameId) ==
  IF gameId \notin DOMAIN games THEN Result(games, stats, "Game not found")
  ELSE IF Len(games[gameId].moveHistory) = 0
  THEN Result(games, stats, "No moves to undo")
  ELSE IF lastHumanMoveIndex(games[gameId].moveHistory) = 0
  THEN Result(games, stats, "No human moves to undo")
  ELSE
    LET game == games[gameId]
        lastHumanMove == game.moveHistory[lastHumanMoveIndex(game.moveHistory)]
        h2 == undoHistory(game.moveHistory)
        from == lastHumanMove.from
        to == lastHumanMove.to
        b1 == SetCell(game.board, to, EMPTY)
        b2 == IF from # Null THEN SetCell(b1, from, lastHumanMove.player) ELSE b1
        g2 == IF Len(h2) = 0
              THEN [game EXCEPT !.moveHistory = h2,
                                !.gamePhase = "starting",
                                !.currentPlayer = HUMAN,
                                !.humanPos = Null,
                                !.aiPos = Null,
                                !.winner = NoWinner,
                                !.board = initializeBoard]
              ELSE [game EXCEPT !.moveHistory = h2,
                                !.board = b2,
                                !.humanPos = from,
                                !.currentPlayer = HUMAN]
    IN  Result([games EXCEPT ![gameId] = g2], stats, "none")

\* undoLastMove that refuses while the AI is to move.
undoLastMove_humanTurn(games, stats, gameId) ==
  IF gameId \notin DOMAIN games THEN Result(games, stats, "Game not found")
  ELSE IF games[gameId].gamePhase = "ended"
  THEN Result(games, stats, "Cannot undo moves in ended game")
  ELSE IF games[gameId].currentPlayer # HUMAN
  THEN Result(games, stats, "Not your turn")
  ELSE IF Len(games[gameId].moveHistory) = 0
  THEN Result(games, stats, "No moves to undo")
  ELSE IF lastHumanMoveIndex(games[gameId].moveHistory) = 0
  THEN Result(games, stats, "No human moves to undo")
  ELSE
    LET game == games[gameId]
        lastHumanMove == game.moveHistory[lastHumanMoveIndex(game.moveHistory)]
        h2 == undoHistory(game.moveHistory)
        from == lastHumanMove.from
        to == lastHumanMove.to
        b1 == SetCell(game.board, to, EMPTY)
        b2 == IF from # Null THEN SetCell(b1, from, lastHumanMove.player) ELSE b1
        g2 == IF Len(h2) = 0
              THEN [game EXCEPT !.moveHistory = h2,
                                !.gamePhase = "starting",
                                !.currentPlayer = HUMAN,
                                !.humanPos = Null,
                                !.aiPos = Null,
                                !.winner = NoWinner,
                                !.board = initializeBoard]
              ELSE [game EXCEPT !.moveHistory = h2,
                                !.board = b2,
                                !.humanPos = from,
                                !.currentPlayer = HUMAN]
    IN  Result([games EXCEPT ![gameId] = g2], stats, "none")

\* undoLastMove, without the marker put back on the source of the move.
undoLastMove_sourceBlocked(games, stats, gameId) ==
  IF gameId \notin DOMAIN games THEN Result(games, stats, "Game not found")
  ELSE IF games[gameId].gamePhase = "ended"
  THEN Result(games, stats, "Cannot undo moves in ended game")
  ELSE IF Len(games[gameId].moveHistory) = 0
  THEN Result(games, stats, "No moves to undo")
  ELSE IF lastHumanMoveIndex(games[gameId].moveHistory) = 0
  THEN Result(games, stats, "No human moves to undo")
  ELSE
    LET game == games[gameId]
        lastHumanMove == game.moveHistory[lastHumanMoveIndex(game.moveHistory)]
        h2 == undoHistory(game.moveHistory)
        from == lastHumanMove.from
        to == lastHumanMove.to
        b1 == SetCell(game.board, to, EMPTY)
        g2 == IF Len(h2) = 0
              THEN [game EXCEPT !.moveHistory = h2,
                                !.gamePhase = "starting",
                                !.currentPlayer = HUMAN,
                                !.humanPos = Null,
                                !.aiPos = Null,
                                !.winner = NoWinner,
                                !.board = initializeBoard]
              ELSE [game EXCEPT !.moveHistory = h2,
                                !.board = b1,
                                !.humanPos = from,
                                !.currentPlayer = HUMAN]
    IN  Result([games EXCEPT ![gameId] = g2], stats, "none")

undoLastMove(games, stats, gameId) ==
  IF gameId \notin DOMAIN games THEN Result(games, stats, "Game not found")
  ELSE IF games[gameId].gamePhase = "ended"
  THEN Result(games, stats, "Cannot undo moves in ended game")
  ELSE IF Len(games[gameId].moveHistory) = 0
  THEN Result(games, stats, "No moves to undo")
  ELSE IF lastHumanMoveIndex(games[gameId].moveHistory) = 0
  THEN Result(games, stats, "No human moves to undo")
  ELSE
    LET game == games[gameId]
        lastHumanMove == game.moveHistory[lastHumanMoveIndex(game.moveHistory)]
        h2 == undoHistory(game.moveHistory)
        from == lastHumanMove.from
        to == lastHumanMove.to
        b1 == SetCell(game.board, to, EMPTY)
        b2 == IF from # Null THEN SetCell(b1, from, lastHumanMove.player) ELSE b1
        g2 == IF Len(h2) = 0
              THEN [game EXCEPT !.moveHistory = h2,
                                !.gamePhase = "starting",
                                !.currentPlayer = HUMAN,
                                !.humanPos = Null,
                                !.aiPos = Null,
                                !.winner = NoWinner,
                                !.board = initializeBoard]
              ELSE [game EXCEPT !.moveHistory = h2,
                                !.board = b2,
                                !.humanPos = from,
                                !.currentPlayer = HUMAN]
    IN  Result([games EXCEPT ![gameId] = g2], stats, "none")

\* The staleness threshold of the sweep, in ms.
oneHour == 60 * 60 * 1000

\* cleanupOldGames deleting the sessions that are an hour old or older.
cleanupOldGames_orEqual(games, clock) ==
  LET oneHourAgo == clock - oneHour
  IN  [gameId \in {i \in DOMAIN games : ~(games[i].createdAt <= oneHourAgo)} |->
         games[gameId]]

\* cleanupOldGames: the sessions created before one hour ago are deleted
\* from the store.
cleanupOldGames(games, clock) ==
  LET oneHourAgo == clock - oneHour
  IN  [gameId \in {i \in DOMAIN games : ~(games[i].createdAt < oneHourAgo)} |->
         games[gameId]]

---------------------------------------------------------------------------
(* The Recorder (ExperienceReplay).  A pattern table is a function from    *)
(* keys to counts; a key is the tuple of the parts of the string the code  *)
(* builds.  The buffer, an array of up to 10,000 observations, is kept as  *)
(* a sequence of runs: a run [.., timestamp |-> t, count |-> n] stands for *)
(* n entries in a row that differ only in their timestamps t, t + 1, ...,  *)
(* t + n - 1, so an observation pushed is a run of one entry.              *)

maxBufferSize == 10000

\* experienceBuffer.length
RECURSIVE BufferLength(_)
BufferLength(buffer) ==
  IF buffer = <<>> THEN 0 ELSE buffer[1].count + BufferLength(Tail(buffer))

\* experienceBuffer[i - 1]: the i-th entry, counted from 1.
RECURSIVE BufferEntry(_, _)
BufferEntry(buffer, i) ==
  IF i <= buffer[1].count
  THEN [buffer[1] EXCEPT !.timestamp = @ + i - 1, !.count = 1]
  ELSE BufferEntry(Tail(buffer), i - buffer[1].count)

\* experienceBuffer.push(experience)
BufferPush(buffer, experience) == Append(buffer, experience)

\* experienceBuffer.shift(): the first entry is removed.
BufferShift(buffer) ==
  IF buffer[1].count = 1 THEN Tail(buffer)
  ELSE <<[buffer[1] EXCEPT !.timestamp = @ + 1, !.count = @ - 1]>> \o Tail(buffer)

NoTable == [k \in {} |-> 0]

\* The tables after the constructor.
NoPatterns ==
  [ startingPositions |-> NoTable, movePreferences |-> NoTable,
    trapAttempts |-> NoTable, escapePatterns |-> NoTable ]

\* The Recorder after its constructor.  saving holds the games handed to
\* recordGame whose data file is still being written.
NewExperienceReplay ==
  [ experienceBuffer |-> <<>>, humanPatterns |-> NoPatterns, saving |-> <<>> ]

\* No patterns file on disk.
NoFile == [exists |-> FALSE, patterns |-> NoPatterns]

\* map.set(key, (map.get(key) || 0) + 1)
Increment(map, key) ==
  [k \in DOMAIN map \cup {key} |->
     IF k = key THEN (IF key \in DOMAIN map THEN map[key] ELSE 0) + 1
     ELSE map[k]]

determineGamePhase(board) ==
  LET blockedCells == CountCells(board, BLOCKED)
      totalCells == 49
  IN  IF blockedCells * 100 < 20 * totalCells THEN "opening"
      ELSE IF blockedCells * 100 < 60 * totalCells THEN "midgame"
      ELSE "endgame"

\* isStartingMove counting up to three pieces as an early board.
isStartingMove_atMostThree(move, board) ==
  CountCells(board, HUMAN) + CountCells(board, AI) <= 3

isStartingMove(move, board) ==
  CountCells(board, HUMAN) + CountCells(board, AI) <= 2

encodeMovePattern(move, board) ==
  LET centerDistance == Abs(move[1] - 3) + Abs(move[2] - 3)
  IN  <<determineGamePhase(board), centerDistance, move[1], move[2]>>

\* isTrapAttempt: isEdge is computed and not used.
isTrapAttempt(move, board) ==
  LET isEdge == move[1] = 0 \/ move[1] = 6 \/ move[2] = 0 \/ move[2] = 6
  IN  \E c \in Cells :
        /\ At(board, c) = AI
        /\ Abs(move[1] - c[1]) + Abs(move[2] - c[2]) <= 2

encodeTrapPattern(move, board) == <<"trap", move[1], move[2]>>

analyzeHumanPattern(patterns, experience) ==
  IF experience.player # "H" THEN patterns
  ELSE
    LET move == experience.move
        board == experience.board
        p1 == IF experience.phase = "opening" /\ isStartingMove(move, board)
              THEN [patterns EXCEPT
                      !.startingPositions = Increment(@, <<move[1], move[2]>>)]
              ELSE patterns
        p2 == [p1 EXCEPT
                 !.movePreferences = Increment(@, encodeMovePattern(move, board))]
    IN  IF isTrapAttempt(move, board)
        THEN [p2 EXCEPT
                !.trapAttempts = Increment(@, encodeTrapPattern(move, board))]
        ELSE p2

\* recordMove dropping the newest entry of a buffer that is over its size.
recordMove_pop(er, gameId, player, move, board, timestamp) ==
  LET experience ==
        [ gameId |-> gameId, player |-> player, move |-> move, board |-> board,
          timestamp |-> timestamp, phase |-> determineGamePhase(board),
          count |-> 1 ]
      pushed == BufferPush(er.experienceBuffer, experience)
      buffer == IF BufferLength(pushed) > maxBufferSize
                THEN SubSeq(pushed, 1, Len(pushed) - 1)
                ELSE pushed
  IN  [er EXCEPT
         !.experienceBuffer = buffer,
         !.humanPatterns = IF player = "H"
                           THEN analyzeHumanPattern(@, experience)
                           ELSE @]

\* recordMove: the observation is pushed on the buffer, the oldest entry is
\* shifted out when the buffer is over its size, and a move of the human is
\* analysed.
recordMove(er, gameId, player, move, board, timestamp) ==
  LET experience ==
        [ gameId |-> gameId, player |-> player, move |-> move, board |-> board,
          timestamp |-> timestamp, phase |-> determineGamePhase(board),
          count |-> 1 ]
      pushed == BufferPush(er.experienceBuffer, experience)
      buffer == IF BufferLength(pushed) > maxBufferSize
                THEN BufferShift(pushed)
                ELSE pushed
  IN  [er EXCEPT
         !.experienceBuffer = buffer,
         !.humanPatterns = IF player = "H"
                           THEN analyzeHumanPattern(@, experience)
                           ELSE @]

\* recordGame up to its first wait: the data of the game is taken and the
\* write of its file begins.
recordGame(er, game) ==
  [er EXCEPT !.saving = Append(@, [winner |-> game.winner, moves |-> game.moves])]

\* The records of the human among the moves.
RECURSIVE HumanMoves(_)
HumanMoves(moves) ==
  IF moves = <<>> THEN <<>>
  ELSE IF moves[1].player = "H" THEN <<moves[1]>> \o HumanMoves(Tail(moves))
  ELSE HumanMoves(Tail(moves))

\* analyzeWinningHumanStrategy from the i-th move of the human on: every
\* three moves in a row are counted as a winning sequence.
RECURSIVE analyzeWinningHumanStrategy(_, _, _)
analyzeWinningHumanStrategy(table, humanMoves, i) ==
  IF i + 2 > Len(humanMoves) THEN table
  ELSE analyzeWinningHumanStrategy(
         Increment(table, << "winning_sequence",
                             humanMoves[i].to[1], humanMoves[i].to[2],
                             humanMoves[i + 1].to[1], humanMoves[i + 1].to[2],
                             humanMoves[i + 2].to[1], humanMoves[i + 2].to[2] >>),
         humanMoves, i + 1)

\* analyzeLosingHumanStrategy: ledToTrap answers true for every move but
\* the last.
RECURSIVE analyzeLosingHumanStrategy(_, _, _)
analyzeLosingHumanStrategy(table, humanMoves, i) ==
  IF i + 1 > Len(humanMoves) THEN table
  ELSE analyzeLosingHumanStrategy(
         Increment(table, <<"mistake", humanMoves[i].to[1], humanMoves[i].to[2]>>),
         humanMoves, i + 1)

\* savePatterns: the tables are written to the patterns file.
savePatterns(er) == [exists |-> TRUE, patterns |-> er.humanPatterns]

\* loadPatterns: the tables are read from the patterns file, if there is one.
loadPatterns(er, file) ==
  IF file.exists THEN [er EXCEPT !.humanPatterns = file.patterns] ELSE er

\* analyzeGamePatterns, run when the game's file is written: the tables
\* after the analysis.
analyzeGamePatterns(er, gameData) ==
  LET humanMoves == HumanMoves(gameData.moves)
  IN  [er EXCEPT
         !.humanPatterns.movePreferences =
           IF gameData.winner = "H"
           THEN analyzeWinningHumanStrategy(@, humanMoves, 1)
           ELSE IF gameData.winner = "A"
           THEN analyzeLosingHumanStrategy(@, humanMoves, 1)
           ELSE @]

---------------------------------------------------------------------------
(* State: the session store, the statistics, the next fresh identifier,    *)
(* query (a board and a position getValidMoves is asked about, with its     *)
(* answer), and two observations the properties read: lastCall, the last   *)
(* call                                                                    *)
(* (what was asked, the session it named as it was before the call, the    *)
(* error the call ended with), and placed, each session as its last        *)
(* successful placeStartingPosition left it.  run is a call of             *)
(* enhancedMCTS in progress (its arguments, its local variables and the    *)
(* place it has reached) or a call of evaluatePosition by itself.          *)
(* In SpecOverlap run lists the calls of makeAIMove that are suspended,    *)
(* and in SpecHint query keeps the candidates a hint gave the chooser.     *)
(* now is Date.now(), in milliseconds since the first call.                *)
(* experienceReplay is the engine's ExperienceReplay (its buffer, its      *)
(* pattern tables, and the games whose file is being written), and         *)
(* patternsFile is human_patterns.json.  The engine only ever calls the    *)
(* Recorder's recordMove and recordGame and reads nothing back, so the     *)
(* two are checked apart: a lifecycle call lists in lastCall.recordMove    *)
(* and lastCall.recordGame the calls it makes to the Recorder, with their  *)
(* arguments, and the Recorder's own state moves in SpecRecord and         *)
(* SpecPersist, whose actions are those calls.                             *)

VARIABLES activeGames, gameStats, nextId, lastCall, placed, query, run,
          now, experienceReplay, patternsFile

vars == <<activeGames, gameStats, nextId, lastCall, placed, query, run,
          now, experienceReplay, patternsFile>>

GameIds == 1 .. MaxGames

NoGames == [i \in {} |-> createGame]

\* What the round-trip properties compare: a session without its history.
Core(game) ==
  [ board |-> game.board, humanPos |-> game.humanPos, aiPos |-> game.aiPos,
    gamePhase |-> game.gamePhase, currentPlayer |-> game.currentPlayer ]

NoCore ==
  [ board |-> <<>>, humanPos |-> Null, aiPos |-> Null,
    gamePhase |-> "absent", currentPlayer |-> "absent" ]

Call(op, gameId, row, col, error) ==
  [ op |-> op, gameId |-> gameId, row |-> row, col |-> col, error |-> error,
    engine |-> FALSE, recordMove |-> <<>>, recordGame |-> <<>>,
    before |-> IF gameId \in DOMAIN activeGames
               THEN Core(activeGames[gameId]) ELSE NoCore ]

NoCall ==
  [ op |-> "init", gameId |-> 0, row |-> -1, col |-> -1, error |-> "none",
    engine |-> FALSE, recordMove |-> <<>>, recordGame |-> <<>>,
    before |-> NoCore ]

\* A question to getValidMoves: the board and position asked about, the
\* board as the call leaves it, and the list returned.
Query(board, pos) ==
  [ board |-> board, pos |-> pos, asked |-> FALSE, after |-> board, moves |-> <<>> ]

NoQuery == Query(initializeBoard, <<0, 0>>)

\* No call in progress.
NoRun == [pc |-> "idle"]

Init ==
  /\ query = NoQuery
  /\ run = NoRun
  /\ activeGames = NoGames
  /\ gameStats = InitStats
  /\ nextId = 1
  /\ lastCall = NoCall
  /\ now = 0
  /\ experienceReplay = NewExperienceReplay
  /\ patternsFile = NoFile
  /\ placed = [i \in {} |-> NoCore]

\* The cells clients ask for: the bottom-right square, and one cell off the board.
HumanArea ==
  {c \in Cells : c[1] >= BOARD_SIZE - AreaSize /\ c[2] >= BOARD_SIZE - AreaSize}

OffBoard == <<0, BOARD_SIZE>>

CenterCell == <<BOARD_SIZE \div 2, BOARD_SIZE \div 2>>

FirstCell == <<BOARD_SIZE - 1, BOARD_SIZE - AreaSize + 1>>

\* The behaviours of the learned model that are tried: not loaded, or loaded
\* and favouring one cell of the diagonal of the square.
Evaluators ==
  {[loaded |-> FALSE, fav |-> <<0, 0>>, lo |-> <<0, 1>>, hi |-> <<1, 1>>,
    outcome |-> "value"]}
    \cup {[loaded |-> TRUE, fav |-> <<i, i>>, lo |-> <<0, 1>>, hi |-> <<1, 1>>,
           outcome |-> "value"] : i \in BOARD_SIZE - AreaSize .. BOARD_SIZE - 1}

\* Moves are asked of a session that is Playing only while fewer than
\* `limit` of its cells are Blocked.
MayAsk(gameId, limit) ==
  (gameId \in DOMAIN activeGames /\ activeGames[gameId].gamePhase = "playing")
    => CountCells(activeGames[gameId].board, BLOCKED) < limit

\* A failed call is not followed further: the calls that may come after it
\* are the calls of the state it was made in.
Ready == lastCall.error = "none"

\* The call op(gameId, row, col) with outcome r.
Apply(op, gameId, row, col, r) ==
  /\ Ready
  /\ activeGames' = r.games
  /\ gameStats' = r.stats
  /\ lastCall' = [Call(op, gameId, row, col, r.error) EXCEPT
                    !.engine = r.engine,
                    !.recordMove = r.recordMove,
                    !.recordGame = r.recordGame]
  /\ placed' = IF op = "placeStartingPosition" /\ r.error = "none"
               THEN [i \in DOMAIN placed \cup {gameId} |->
                       IF i = gameId THEN Core(r.games[gameId]) ELSE placed[i]]
               ELSE placed
  /\ UNCHANGED <<nextId, query, run, now, experienceReplay, patternsFile>>

\* The same, for a client that only makes calls that succeed.
ApplyOk(op, gameId, row, col, r) ==
  /\ r.error = "none"
  /\ Apply(op, gameId, row, col, r)

CreateGame ==
  /\ Ready
  /\ nextId <= MaxGames
  /\ activeGames' = [i \in DOMAIN activeGames \cup {nextId} |->
                       IF i = nextId THEN [createGame EXCEPT !.createdAt = now]
                       ELSE activeGames[i]]
  /\ nextId' = nextId + 1
  /\ lastCall' = Call("createGame", nextId, -1, -1, "none")
  /\ UNCHANGED <<gameStats, placed, query, run, now, experienceReplay, patternsFile>>

\* The evaluations the chooser makes when the deadline does not cut it short.
Simulations(games, gameId) ==
  IF gameId \in DOMAIN games /\ games[gameId].aiPos # Null
  THEN FullRun(Len(getValidMoves(games[gameId].board, games[gameId].aiPos)))
  ELSE 0

(* Every call, from any client: the calls that fail are made too.          *)

PlaceStartingPosition ==
  \E gameId \in GameIds, c \in {FirstCell, CenterCell, OffBoard}, random \in 0 .. Len(directions) - 1 :
    Apply("placeStartingPosition", gameId, c[1], c[2],
          placeStartingPosition(activeGames, gameStats, gameId, c[1], c[2], random))

MakeHumanMove ==
  \E gameId \in GameIds, c \in HumanArea \cup {OffBoard} :
    /\ MayAsk(gameId, MaxBlocked)
    /\ Apply("makeHumanMove", gameId, c[1], c[2],
             makeHumanMove(activeGames, gameStats, gameId, c[1], c[2]))

MakeAIMove ==
  \E gameId \in GameIds, nn \in Evaluators :
    /\ MayAsk(gameId, MaxBlocked)
    /\ Apply("makeAIMove", gameId, -1, -1,
             makeAIMove(activeGames, gameStats, gameId, nn,
                        Simulations(activeGames, gameId)))

UndoLastMove ==
  \E gameId \in GameIds :
    Apply("undoLastMove", gameId, -1, -1,
          undoLastMove(activeGames, gameStats, gameId))

Next ==
  \/ CreateGame
  \/ PlaceStartingPosition
  \/ MakeHumanMove
  \/ MakeAIMove
  \/ UndoLastMove

Spec == Init /\ [][Next]_vars

(* Longer games, from a client that starts on FirstCell and makes only     *)
(* calls that succeed.                                                     *)

PlayPlace ==
  \E gameId \in GameIds :
    ApplyOk("placeStartingPosition", gameId, FirstCell[1], FirstCell[2],
            placeStartingPosition(activeGames, gameStats, gameId,
                                  FirstCell[1], FirstCell[2], 0))

PlayHumanMove ==
  \E gameId \in GameIds, c \in HumanArea :
    /\ MayAsk(gameId, MaxPlayBlocked)
    /\ ApplyOk("makeHumanMove", gameId, c[1], c[2],
               makeHumanMove(activeGames, gameStats, gameId, c[1], c[2]))

PlayAIMove ==
  \E gameId \in GameIds, nn \in Evaluators :
    /\ MayAsk(gameId, MaxPlayBlocked)
    /\ ApplyOk("makeAIMove", gameId, -1, -1,
               makeAIMove(activeGames, gameStats, gameId, nn,
                          Simulations(activeGames, gameId)))

PlayUndo ==
  \E gameId \in GameIds :
    ApplyOk("undoLastMove", gameId, -1, -1,
            undoLastMove(activeGames, gameStats, gameId))

NextPlay ==
  \/ CreateGame
  \/ PlayPlace
  \/ PlayHumanMove
  \/ PlayAIMove
  \/ PlayUndo

SpecPlay == Init /\ [][NextPlay]_vars

---------------------------------------------------------------------------
(* getValidMoves on its own: asked once about a board on which the cells   *)
(* around the position hold any mix of Empty and Blocked, and at most one  *)
(* the AI marker.                                                          *)

\* The cells next to each other: a king's move apart.
Adjacent(a, b) ==
  a # b /\ Abs(a[1] - b[1]) <= 1 /\ Abs(a[2] - b[2]) <= 1

Around(pos) == {c \in Cells : Adjacent(pos, c)}

\* The positions asked about: two corners, two edges, the centre.
QueryCells ==
  { <<0, 0>>, <<0, BOARD_SIZE \div 2>>, CenterCell,
    <<BOARD_SIZE \div 2, BOARD_SIZE - 1>>, <<BOARD_SIZE - 1, BOARD_SIZE - 1>> }

\* The board with the human on pos, the cells of blocked Blocked, and the
\* AI on ai unless ai is pos.
MarkedBoard(pos, blocked, ai) ==
  AsSeq([i \in 1 .. BOARD_SIZE * BOARD_SIZE |->
           IF Pos(i) = pos THEN HUMAN
           ELSE IF Pos(i) = ai THEN AI
           ELSE IF Pos(i) \in blocked THEN BLOCKED
           ELSE EMPTY],
        BOARD_SIZE * BOARD_SIZE)

QueryBoards(pos) ==
  {MarkedBoard(pos, blocked, ai) :
     blocked \in SUBSET Around(pos), ai \in Around(pos) \cup {pos}}

InitMoves ==
  /\ activeGames = NoGames
  /\ gameStats = InitStats
  /\ nextId = 1
  /\ lastCall = NoCall
  /\ now = 0
  /\ experienceReplay = NewExperienceReplay
  /\ patternsFile = NoFile
  /\ placed = [i \in {} |-> NoCore]
  /\ run = NoRun
  /\ \E pos \in QueryCells : query \in {Query(b, pos) : b \in QueryBoards(pos)}

\* The call getValidMoves(query.board, query.pos): it reads cells of the
\* board and writes none.
GetValidMoves ==
  /\ ~query.asked
  /\ query' = [query EXCEPT !.asked = TRUE,
                            !.after = query.board,
                            !.moves = getValidMoves(query.board, query.pos)]
  /\ UNCHANGED <<activeGames, gameStats, nextId, lastCall, placed, run, now, experienceReplay, patternsFile>>

SpecMoves == InitMoves /\ [][GetValidMoves]_vars

---------------------------------------------------------------------------
(* makeAIMove on its own, on sessions as they may stand when the AI's turn *)
(* begins: the AI in a corner with any of the cells around it Blocked, the *)
(* human one move away from FirstCell.                                     *)

\* The session with the AI on aiPos to move, the cells of blocked Blocked,
\* and the human on humanPos after one move from FirstCell.
TurnSession(aiPos, blocked, humanPos) ==
  LET board == AsSeq([i \in 1 .. BOARD_SIZE * BOARD_SIZE |->
                        IF Pos(i) = aiPos THEN AI
                        ELSE IF Pos(i) = humanPos THEN HUMAN
                        ELSE IF Pos(i) = FirstCell \/ Pos(i) \in blocked THEN BLOCKED
                        ELSE EMPTY],
                     BOARD_SIZE * BOARD_SIZE)
  IN  [createGame EXCEPT
         !.board = board,
         !.humanPos = humanPos,
         !.aiPos = aiPos,
         !.currentPlayer = AI,
         !.gamePhase = "playing",
         !.moveHistory = << [player |-> HUMAN, from |-> FirstCell,
                             to |-> humanPos, board |-> board] >>]

TurnSessions ==
  UNION { {TurnSession(aiPos, blocked, humanPos) :
             blocked \in SUBSET Around(aiPos), humanPos \in Around(FirstCell)} :
          aiPos \in {<<0, 0>>, <<0, BOARD_SIZE - 1>>, <<BOARD_SIZE - 1, 0>>} }

InitTurn ==
  /\ activeGames \in {<<g>> : g \in TurnSessions}
  /\ gameStats = InitStats
  /\ nextId = 2
  /\ lastCall = NoCall
  /\ now = 0
  /\ experienceReplay = NewExperienceReplay
  /\ patternsFile = NoFile
  /\ placed = [i \in {} |-> NoCore]
  /\ query = NoQuery
  /\ run = NoRun

SpecTurn == InitTurn /\ [][MakeAIMove]_vars

---------------------------------------------------------------------------
(* enhancedMCTS step by step, on sessions reached by play with the AI to   *)
(* move.  The clock is read where the code reads it: it may have passed    *)
(* the deadline at any reading, and once past it stays past.               *)

\* A loaded model answering 1 for the boards with the AI on cell c, 0 for
\* the others.
Favouring(c) ==
  [loaded |-> TRUE, fav |-> c, lo |-> <<0, 1>>, hi |-> <<1, 1>>, outcome |-> "value"]

\* The session store after the calls of a script: a placement, then moves
\* of the human and of the AI in turn, the AI's chosen by a model that
\* favours them.
RECURSIVE Replay(_, _, _)
Replay(r, script, k) ==
  IF k > Len(script) THEN r
  ELSE LET c == script[k]
       IN  Replay(IF k = 1
                  THEN placeStartingPosition(r.games, r.stats, 1, c[1], c[2], 0)
                  ELSE IF k % 2 = 0
                  THEN makeHumanMove(r.games, r.stats, 1, c[1], c[2])
                  ELSE makeAIMove(r.games, r.stats, 1, Favouring(c),
                                  Simulations(r.games, 1)),
                  script, k + 1)

\* Games that leave the AI with eight, three, two and one candidates.
ChooseScripts ==
  { << <<6, 5>>, <<5, 4>> >>,
    << <<6, 5>>, <<5, 4>>, <<2, 2>>, <<4, 4>>, <<1, 1>>, <<5, 5>>, <<1, 0>>,
       <<4, 5>>, <<0, 1>>, <<5, 6>> >>,
    << <<1, 2>>, <<2, 2>>, <<3, 2>>, <<1, 3>>, <<2, 3>>, <<2, 4>> >>,
    << <<6, 5>>, <<5, 4>>, <<2, 2>>, <<4, 4>>, <<1, 1>>, <<5, 5>>, <<1, 0>>,
       <<4, 5>>, <<0, 0>>, <<5, 6>> >> }

ChooseSession(script) ==
  Replay(Result(<<createGame>>, InitStats, "none"), script, 1).games[1]

\* A score a constant model answers with.
ConstantScore == <<3277, 32768>>

\* The behaviours of the learned model that are tried for a candidate list:
\* not loaded; loaded and favouring one of the candidates; loaded and
\* answering the same score, ConstantScore or 0, for every board; loaded
\* and throwing; loaded and not answering in time.
ChooseEvaluators(validMoves) ==
  LET nn == Favouring(validMoves[1])
  IN  {[nn EXCEPT !.loaded = FALSE]}
        \cup {Favouring(c) : c \in Range(validMoves)}
        \cup {[nn EXCEPT !.lo = ConstantScore, !.hi = ConstantScore],
              [nn EXCEPT !.hi = <<0, 1>>]}
        \cup {[nn EXCEPT !.outcome = "throws"], [nn EXCEPT !.outcome = "timeout"]}

\* What is kept of the clone of the last simulation.
NoSim == [isSimulation |-> FALSE, gamePhase |-> "none", winner |-> NoWinner]

\* enhancedMCTS(game, validMoves) on entry of its while loop: sums and
\* visits at 0 for every candidate, no evaluation made.  evaluation is the
\* last value evaluatePosition returned, recorded the number of games handed
\* to the recorder, bestMove the move returned.
StartRun(gameId, validMoves, nn) ==
  [ pc |-> "while", gameId |-> gameId, validMoves |-> validMoves, nn |-> nn,
    move |-> 1, simulations |-> 0,
    scores |-> [i \in 1 .. Len(validMoves) |-> DoubleZero],
    visits |-> [i \in 1 .. Len(validMoves) |-> 0],
    expired |-> FALSE, evaluation |-> Null, sim |-> NoSim, recorded |-> 0,
    bestMove |-> Null ]

InitChoose ==
  /\ \E script \in ChooseScripts :
       LET game == ChooseSession(script)
           validMoves == getValidMoves(game.board, game.aiPos)
       IN  /\ activeGames = <<game>>
           /\ run \in {StartRun(1, validMoves, nn) : nn \in ChooseEvaluators(validMoves)}
  /\ gameStats = InitStats
  /\ nextId = 2
  /\ lastCall = NoCall
  /\ now = 0
  /\ experienceReplay = NewExperienceReplay
  /\ patternsFile = NoFile
  /\ placed = [i \in {} |-> NoCore]
  /\ query = NoQuery

\* The test of the while loop: a new round starts if the deadline has not
\* passed and fewer than maxSimulations evaluations were made.
WhileTest ==
  /\ run.pc = "while"
  /\ \E late \in BOOLEAN :
       LET expired == run.expired \/ late
       IN  run' = [run EXCEPT
                     !.expired = expired,
                     !.move = 1,
                     !.pc = IF ~expired /\ run.simulations < maxSimulations
                            THEN "for" ELSE "select"]
  /\ UNCHANGED <<activeGames, gameStats, nextId, lastCall, placed, query, now, experienceReplay, patternsFile>>

\* One pass of the body of the for loop: the candidate is simulated on a
\* clone and evaluated, its sum and visits and the count of evaluations
\* grow; then the clock is read, and the round ends if the deadline has
\* passed or this was the last candidate.  After the round the count is
\* tested against maxSimulations.
Evaluate ==
  /\ run.pc = "for"
  /\ \E late \in BOOLEAN :
       LET game == activeGames[run.gameId]
           i == run.move
           s == simulateMove(game, gameStats, run.validMoves[i])
           evaluation == evaluatePosition(s.game.board, run.nn)
           expired == run.expired \/ late
           simulations == run.simulations + 1
           roundOver == expired \/ i = Len(run.validMoves)
       IN  /\ run' = [run EXCEPT
                        !.scores[i] = DoubleAdd(@, Double(evaluation)),
                        !.visits[i] = @ + 1,
                        !.simulations = simulations,
                        !.expired = expired,
                        !.evaluation = evaluation,
                        !.sim = [isSimulation |-> s.game.isSimulation,
                                 gamePhase |-> s.game.gamePhase,
                                 winner |-> s.game.winner],
                        !.recorded = IF s.recorded THEN @ + 1 ELSE @,
                        !.move = IF roundOver THEN 1 ELSE i + 1,
                        !.pc = IF ~roundOver THEN "for"
                               ELSE IF simulations >= maxSimulations THEN "select"
                               ELSE "while"]
           /\ activeGames' = [activeGames EXCEPT
                                ![run.gameId] = AfterSimulation(game, s.game)]
           /\ gameStats' = s.stats
  /\ UNCHANGED <<nextId, lastCall, placed, query, now, experienceReplay, patternsFile>>

\* The selection after the loop, and the return.
Select ==
  /\ run.pc = "select"
  /\ run' = [run EXCEPT
               !.pc = "done",
               !.bestMove = bestWinRate(run.validMoves, run.scores, run.visits)]
  /\ UNCHANGED <<activeGames, gameStats, nextId, lastCall, placed, query, now, experienceReplay, patternsFile>>

\* Every step of the call is taken in the end: an evaluation waits at most
\* 50 ms for the learned model, everything else is computation.  The pass
\* of the for loop and the selection are enabled exactly when the call has
\* reached them, which is how their weak fairness is written.
SpecChoose ==
  /\ InitChoose
  /\ [][WhileTest \/ Evaluate \/ Select]_vars
  /\ WF_vars(WhileTest)
  /\ ([]<>(run.pc # "for") \/ []<><<Evaluate>>_vars)
  /\ ([]<>(run.pc # "select") \/ []<><<Select>>_vars)

---------------------------------------------------------------------------
(* evaluatePosition alone, on boards with the human on a corner, an edge   *)
(* or the centre, every mix of Empty and Blocked cells around it, and the  *)
(* AI next to it or not on the board, and on boards with both in a corner. *)

\* The cell the favouring model of these runs looks at.
EvaluateCell == <<0, 1>>

\* The boards evaluated: those of QueryBoards, and boards with the human in
\* the corner and the AI beside it, every mix of Empty and Blocked cells
\* around the two: either side, or both, may be left without a move.
EvaluateBoards ==
  UNION {QueryBoards(pos) : pos \in QueryCells}
    \cup {MarkedBoard(<<0, 0>>, blocked, EvaluateCell) :
            blocked \in SUBSET (Around(<<0, 0>>) \cup Around(EvaluateCell))}

InitEvaluate ==
  /\ activeGames = NoGames
  /\ gameStats = InitStats
  /\ nextId = 1
  /\ lastCall = NoCall
  /\ now = 0
  /\ experienceReplay = NewExperienceReplay
  /\ patternsFile = NoFile
  /\ placed = [i \in {} |-> NoCore]
  /\ query = NoQuery
  /\ run \in {[pc |-> "evaluatePosition", board |-> b, nn |-> nn, evaluation |-> Null] :
               b \in EvaluateBoards, nn \in ChooseEvaluators(<<EvaluateCell>>)}

\* The call evaluatePosition(board) and the value it returns.
EvaluatePosition ==
  /\ run.pc = "evaluatePosition"
  /\ run' = [run EXCEPT !.pc = "evaluated",
                        !.evaluation = evaluatePosition(run.board, run.nn)]
  /\ UNCHANGED <<activeGames, gameStats, nextId, lastCall, placed, query, now, experienceReplay, patternsFile>>

SpecEvaluate == InitEvaluate /\ [][EvaluatePosition]_vars

---------------------------------------------------------------------------
(* The Recorder on its own.  In SpecRecord recordMove is called with       *)
(* observations of moves of either agent, on a buffer that is empty, one   *)
(* short of full, or full.  In SpecPersist moves of the human are          *)
(* recorded, recordGame is called with finished games, whose analysis runs *)
(* once the game's file is written and now and then saves the tables, and  *)
(* the process may be started again.                                       *)

\* Calls of recordMove made on a buffer.
MaxRecorded == 2

\* Games whose analysis may be waiting.
MaxSaving == 1

\* Games analysed by one Recorder.
MaxAnalysed == 1

\* The observations handed to recordMove: a move of the human and one of
\* the AI on each of five boards (the human on an edge far from the AI;
\* inside the board next to the AI; on an edge next to the AI; inside the
\* board far from the AI; on an edge of a board past its opening, with ten
\* cells Blocked), and a move of the human on a board with a third marker,
\* the human's on the cell it left.
RecordInputs ==
  LET ManyBlocked == {c \in Cells : c[1] = 0 \/ (c[1] = 1 /\ c[2] <= 2)}
      RecordPositions ==
        { [human |-> <<6, 5>>, ai |-> <<3, 3>>, blocked |-> {}],
          [human |-> <<4, 4>>, ai |-> <<3, 3>>, blocked |-> {<<6, 5>>}],
          [human |-> <<6, 4>>, ai |-> <<5, 5>>, blocked |-> {<<6, 5>>, <<3, 3>>}],
          [human |-> <<5, 5>>, ai |-> <<1, 1>>, blocked |-> {<<6, 5>>, <<3, 3>>}],
          [human |-> <<6, 5>>, ai |-> <<3, 3>>, blocked |-> ManyBlocked] }
      StaleBoard == SetCell(MarkedBoard(<<5, 5>>, {}, <<3, 3>>), <<6, 5>>, HUMAN)
  IN  UNION { { Observation(1, HUMAN, p.human, MarkedBoard(p.human, p.blocked, p.ai)),
                Observation(1, AI, p.ai, MarkedBoard(p.human, p.blocked, p.ai)) } :
              p \in RecordPositions }
        \cup { Observation(1, HUMAN, <<5, 5>>, StaleBoard) }

\* A buffer holding n observations of moves of the AI, made one a
\* millisecond up to time 0.
Filled(n) ==
  IF n = 0 THEN <<>>
  ELSE << [ gameId |-> 0, player |-> AI, move |-> CenterCell,
            board |-> MarkedBoard(FirstCell, {}, CenterCell),
            timestamp |-> 0 - n, phase |-> "opening", count |-> n ] >>

\* The entries recordMove has put on the buffer since time 0.
Recent(buffer) ==
  Cardinality({i \in 1 .. Len(buffer) : buffer[i].timestamp >= 0})

\* The finished games handed over: one the human won with three moves, one
\* the human lost with two.
RecordedGames ==
  { [ winner |-> HUMAN,
      moves |-> << [player |-> HUMAN, to |-> <<5, 4>>], [player |-> AI, to |-> <<2, 2>>],
                   [player |-> HUMAN, to |-> <<4, 4>>], [player |-> AI, to |-> <<1, 1>>],
                   [player |-> HUMAN, to |-> <<5, 5>>] >> ],
    [ winner |-> AI,
      moves |-> << [player |-> HUMAN, to |-> <<6, 6>>], [player |-> AI, to |-> <<4, 4>>],
                   [player |-> HUMAN, to |-> <<5, 6>>], [player |-> AI, to |-> <<5, 5>>] >> ] }

\* The call of a Recorder operation, as lastCall keeps it.
RecorderCall(op) == [NoCall EXCEPT !.op = op]

InitRecord ==
  /\ activeGames = NoGames
  /\ gameStats = InitStats
  /\ nextId = 1
  /\ lastCall = NoCall
  /\ now = 0
  /\ experienceReplay \in
       {[NewExperienceReplay EXCEPT !.experienceBuffer = Filled(n)] :
          n \in {0, maxBufferSize - 1, maxBufferSize}}
  /\ patternsFile = NoFile
  /\ placed = [i \in {} |-> NoCore]
  /\ query = NoQuery
  /\ run = NoRun

\* The call recordMove(gameId, player, move, board).
RecordMove ==
  /\ Recent(experienceReplay.experienceBuffer) < MaxRecorded
  /\ \E o \in RecordInputs :
       /\ experienceReplay' =
            recordMove(experienceReplay, o.gameId, o.player, o.move, o.board, now)
       /\ lastCall' = [RecorderCall("recordMove") EXCEPT !.recordMove = <<o>>]
  /\ UNCHANGED <<activeGames, gameStats, nextId, placed, query, run, now, patternsFile>>

\* The same call, with the observations of two moves of the human.
RecordHumanMove ==
  /\ Recent(experienceReplay.experienceBuffer) < MaxRecorded
  /\ \E o \in {i \in RecordInputs : i.player = HUMAN /\ i.move \in {<<4, 4>>, <<6, 4>>}} :
       /\ experienceReplay' =
            recordMove(experienceReplay, o.gameId, o.player, o.move, o.board, now)
       /\ lastCall' = [RecorderCall("recordMove") EXCEPT !.recordMove = <<o>>]
  /\ UNCHANGED <<activeGames, gameStats, nextId, placed, query, run, now, patternsFile>>

\* The games this Recorder has analysed: each game of RecordedGames adds
\* one count, to a winning sequence or to a mistake.
RECURSIVE SumOf(_, _)
SumOf(table, keys) ==
  IF keys = {} THEN 0
  ELSE LET k == CHOOSE x \in keys : TRUE
       IN  table[k] + SumOf(table, keys \ {k})

Analysed(er) ==
  LET table == er.humanPatterns.movePreferences
  IN  SumOf(table, {k \in DOMAIN table : k[1] \in {"winning_sequence", "mistake"}})

\* The call recordGame(game), up to the wait for the game's file.
RecordGame ==
  /\ Len(experienceReplay.saving) < MaxSaving
  /\ Analysed(experienceReplay) + Len(experienceReplay.saving) < MaxAnalysed
  /\ \E game \in RecordedGames :
       experienceReplay' = recordGame(experienceReplay, game)
  /\ lastCall' = RecorderCall("recordGame")
  /\ UNCHANGED <<activeGames, gameStats, nextId, placed, query, run, now, patternsFile>>

\* The rest of recordGame, when a game's file is written: the game is
\* analysed and, one time in ten, the tables are saved; the write of the
\* patterns file may fail.
AnalyzeGamePatterns ==
  /\ \E i \in 1 .. Len(experienceReplay.saving), flush \in BOOLEAN, written \in BOOLEAN :
       LET saving == experienceReplay.saving
           rest == SubSeq(saving, 1, i - 1) \o SubSeq(saving, i + 1, Len(saving))
           er == analyzeGamePatterns([experienceReplay EXCEPT !.saving = rest],
                                     saving[i])
       IN  /\ experienceReplay' = er
           /\ patternsFile' = IF flush /\ written THEN savePatterns(er)
                              ELSE patternsFile
           /\ lastCall' = [RecorderCall("analyzeGamePatterns") EXCEPT
                             !.row = IF flush /\ written THEN 1 ELSE 0]
  /\ UNCHANGED <<activeGames, gameStats, nextId, placed, query, run, now>>

\* The process is started again: a GameEngine is constructed and
\* initialized, with an empty store and a Recorder fresh from its
\* constructor; the statistics are read back from their file.  The
\* patterns file stays as it is.
Initialize ==
  /\ activeGames' = NoGames
  /\ experienceReplay' = NewExperienceReplay
  /\ lastCall' = RecorderCall("initialize")
  /\ run' = NoRun
  /\ UNCHANGED <<gameStats, nextId, placed, query, now, patternsFile>>

SpecRecord == InitRecord /\ [][RecordMove]_vars

SpecPersist ==
  Init /\ [][RecordHumanMove \/ RecordGame \/ AnalyzeGamePatterns
               \/ Initialize]_vars

---------------------------------------------------------------------------
(* The sweep.  Sessions are made, played and swept while the clock runs:   *)
(* setInterval calls cleanupOldGames between two requests, at any reading  *)
(* of the clock.                                                           *)

\* The sweep is asked about sessions with fewer Blocked cells than this.
MaxSweepBlocked == 2

\* The clock is read up to this many ms past the hour.
SweepTicks == 2

\* Three games played since the process started: one just made, one with
\* the markers placed, one played to its end.
SweepScripts ==
  << <<>>,
     << <<6, 5>> >>,
     << <<6, 5>>, <<5, 6>>, <<4, 4>>, <<6, 6>>, <<5, 5>> >> >>

SweepIds == 1 .. Len(SweepScripts) + 1

\* The three games were started in any order (o) in the first ms of the
\* process (c: the later the identifier, the later the reading of the
\* clock), which has now run for one hour.
InitSweep ==
  /\ \E o \in {o \in [1 .. Len(SweepScripts) -> 1 .. Len(SweepScripts)] :
                 \A i, j \in DOMAIN o : i # j => o[i] # o[j]},
        c \in {c \in [1 .. Len(SweepScripts) -> 0 .. SweepTicks - 1] :
                 \A i, j \in DOMAIN c : i < j => c[i] <= c[j]} :
       activeGames =
         AsSeq([i \in 1 .. Len(SweepScripts) |->
                  [ChooseSession(SweepScripts[o[i]]) EXCEPT !.createdAt = c[i]]],
               Len(SweepScripts))
  /\ gameStats =
       Replay(Result(<<createGame>>, InitStats, "none"),
              SweepScripts[Len(SweepScripts)], 1).stats
  /\ nextId = Len(SweepScripts) + 1
  /\ lastCall = NoCall
  /\ now = oneHour
  /\ experienceReplay = NewExperienceReplay
  /\ patternsFile = NoFile
  /\ placed = [i \in {} |-> NoCore]
  /\ query = NoQuery
  /\ run = NoRun

\* Time passes.
Tick ==
  /\ Ready
  /\ now < oneHour + SweepTicks
  /\ now' = now + 1
  /\ lastCall' = [NoCall EXCEPT !.op = "tick"]
  /\ UNCHANGED <<activeGames, gameStats, nextId, placed, query, run,
                 experienceReplay, patternsFile>>

\* The interval's callback.
CleanupOldGames ==
  /\ Ready
  /\ activeGames' = cleanupOldGames(activeGames, now)
  /\ lastCall' = [NoCall EXCEPT !.op = "cleanupOldGames"]
  /\ UNCHANGED <<gameStats, nextId, placed, query, run, now,
                 experienceReplay, patternsFile>>

SweepPlace ==
  \E gameId \in SweepIds :
    Apply("placeStartingPosition", gameId, FirstCell[1], FirstCell[2],
          placeStartingPosition(activeGames, gameStats, gameId,
                                FirstCell[1], FirstCell[2], 0))

SweepHumanMove ==
  \E gameId \in SweepIds,
     c \in {<<BOARD_SIZE - 2, BOARD_SIZE - 1>>, <<BOARD_SIZE - 1, BOARD_SIZE - 1>>} :
    /\ MayAsk(gameId, MaxSweepBlocked)
    /\ Apply("makeHumanMove", gameId, c[1], c[2],
             makeHumanMove(activeGames, gameStats, gameId, c[1], c[2]))

SweepAIMove ==
  \E gameId \in SweepIds :
    /\ MayAsk(gameId, MaxSweepBlocked)
    /\ Apply("makeAIMove", gameId, -1, -1,
             makeAIMove(activeGames, gameStats, gameId,
                        [loaded |-> FALSE, fav |-> <<0, 0>>, lo |-> <<0, 1>>,
                         hi |-> <<1, 1>>, outcome |-> "value"],
                        Simulations(activeGames, gameId)))

SweepUndo ==
  \E gameId \in SweepIds :
    Apply("undoLastMove", gameId, -1, -1,
          undoLastMove(activeGames, gameStats, gameId))

SpecSweep ==
  InitSweep /\ [][SweepPlace \/ SweepHumanMove \/ SweepAIMove \/ SweepUndo
                    \/ Tick \/ CleanupOldGames]_vars

---------------------------------------------------------------------------
(* Overlapping requests.  makeAIMove is an async function: it tests its    *)
(* guard, then awaits the chooser, whose evaluator calls wait on the       *)
(* learned model or on its 50 ms timer, and only then commits the move.    *)
(* While it waits the server handles other requests on the same session.   *)
(* run.calls holds the calls that are suspended in their last evaluation:  *)
(* the move each will commit is already determined by the boards it has    *)
(* evaluated.                                                              *)

\* At most this many calls of makeAIMove are made, and so suspended at a
\* time.
MaxSuspended == 2

\* Moves are asked for on sessions with fewer Blocked cells than this.
MaxOverlapBlocked == 4

\* A session in which the software is to answer the human's first move,
\* or one in which its move to (5,5) would shut the human in the corner.
InitOverlap ==
  /\ \E script \in { << <<6, 5>>, <<5, 4>> >>,
                     << <<6, 5>>, <<5, 6>>, <<4, 4>>, <<6, 6>> >> } :
       activeGames = <<ChooseSession(script)>>
  /\ gameStats = InitStats
  /\ nextId = 2
  /\ lastCall = NoCall
  /\ now = 0
  /\ experienceReplay = NewExperienceReplay
  /\ patternsFile = NoFile
  /\ placed = [i \in {} |-> NoCore]
  /\ query = NoQuery
  /\ run = [pc |-> "overlap", calls |-> <<>>, entered |-> 0]

\* makeAIMove up to its await: the guard passes, the candidates are read
\* and the chooser works on clones until its last evaluation is pending.
EnterAIMove ==
  \E gameId \in GameIds, nn \in {e \in Evaluators : e.loaded} :
    /\ Ready
    /\ run.entered < MaxSuspended
    /\ MayAsk(gameId, MaxOverlapBlocked)
    /\ gameId \in DOMAIN activeGames
    /\ activeGames[gameId].gamePhase = "playing"
    /\ activeGames[gameId].currentPlayer = AI
    /\ LET game == activeGames[gameId]
           validMoves == getValidMoves(game.board, game.aiPos)
       IN  /\ Len(validMoves) > 0
           /\ run' = [run EXCEPT !.entered = @ + 1, !.calls =
                        Append(@, [gameId |-> gameId,
                                   validMoves |-> validMoves,
                                   bestMove |->
                                     enhancedMCTS(game, gameStats, validMoves, nn,
                                                  FullRun(Len(validMoves)))])]
    /\ UNCHANGED <<activeGames, gameStats, nextId, lastCall, placed, query,
                   now, experienceReplay, patternsFile>>

\* makeAIMove from its await on: the move chosen is played on the session
\* as it is now, with no second look at the guard.  On a session that an
\* undo has reset, movePlayer sets the marker and pushes the record, and
\* checkGameEnd then throws on the human's null position.
ResumeAIMove ==
  \E k \in 1 .. Len(run.calls) :
    LET call == run.calls[k]
        game == activeGames[call.gameId]
        b == SetCell(game.board, call.bestMove, AI)
        thrown == [game EXCEPT
                     !.board = b,
                     !.aiPos = call.bestMove,
                     !.moveHistory =
                       Append(@, [player |-> AI, from |-> Null,
                                  to |-> call.bestMove, board |-> b])]
        r == IF game.humanPos = Null
             THEN Result([activeGames EXCEPT ![call.gameId] = thrown],
                         gameStats, "Cannot read properties of null")
             ELSE moveChosen(activeGames, gameStats, call.gameId, call.bestMove)
    IN  /\ Ready
        /\ activeGames' = r.games
        /\ gameStats' = r.stats
        /\ lastCall' = [Call("makeAIMove", call.gameId, call.bestMove[1],
                             call.bestMove[2], r.error) EXCEPT
                          !.engine = TRUE,
                          !.recordMove = r.recordMove,
                          !.recordGame = r.recordGame]
        /\ run' = [run EXCEPT !.calls =
                     SubSeq(@, 1, k - 1) \o SubSeq(@, k + 1, Len(@))]
        /\ UNCHANGED <<nextId, placed, query, now, experienceReplay,
                       patternsFile>>

\* Another request on the session is handled while a call is suspended.
WhileSuspended ==
  /\ Len(run.calls) > 0
  /\ \/ PlayUndo
     \/ PlayPlace
     \/ (\A gameId \in GameIds : MayAsk(gameId, MaxOverlapBlocked))
          /\ PlayHumanMove

SpecOverlap ==
  InitOverlap /\ [][EnterAIMove \/ ResumeAIMove \/ WhileSuspended]_vars

---------------------------------------------------------------------------
(* The hint.  POST /suggest-move runs the chooser for the agent that is to *)
(* act and answers with the move it returns; the session is not changed.   *)
(* query keeps the board and the position whose moves were the candidates. *)

SuggestMove ==
  \E gameId \in GameIds, nn \in Evaluators :
    /\ Ready
    /\ ~query.asked
    /\ MayAsk(gameId, MaxBlocked)
    /\ IF gameId \notin DOMAIN activeGames
       THEN /\ lastCall' = Call("suggestMove", gameId, -1, -1, "Game not found")
            /\ query' = query
       ELSE IF activeGames[gameId].gamePhase # "playing"
       THEN /\ lastCall' = Call("suggestMove", gameId, -1, -1,
                                "Game is not in playing phase")
            /\ query' = query
       ELSE
         LET game == activeGames[gameId]
             currentPos == IF game.currentPlayer = HUMAN
                           THEN game.humanPos ELSE game.aiPos
             validMoves == getValidMoves(game.board, currentPos)
         IN  /\ query' = [Query(game.board, currentPos) EXCEPT
                            !.asked = TRUE, !.moves = validMoves]
             /\ IF Len(validMoves) = 0
                THEN lastCall' = Call("suggestMove", gameId, -1, -1, "none")
                ELSE \E bestMove \in
                          {enhancedMCTS(game, gameStats, validMoves, nn,
                                        FullRun(Len(validMoves)))} :
                       lastCall' = [Call("suggestMove", gameId, bestMove[1],
                                         bestMove[2], "none")
                                      EXCEPT !.engine = TRUE]
    /\ UNCHANGED <<activeGames, gameStats, nextId, placed, run, now,
                   experienceReplay, patternsFile>>

\* Games are played, and at any point a hint is asked for.
SpecHint == Init /\ [][(~query.asked /\ NextPlay) \/ SuggestMove]_vars

---------------------------------------------------------------------------
(* Properties.                                                             *)

\* The cells a marker on pos may move to, stated without the direction
\* list: the cells of the board next to pos that are Empty.
LegalSet(board, pos) ==
  {c \in Cells : Adjacent(pos, c) /\ At(board, c) = EMPTY}

Other(player) == IF player = HUMAN THEN AI ELSE HUMAN

PosOf(game, player) == IF player = HUMAN THEN game.humanPos ELSE game.aiPos

LastOf(moveHistory) == moveHistory[Len(moveHistory)]

\* The precondition of a human move to dest in session gameId.
HumanMoveAllowed(games, gameId, dest) ==
  /\ gameId \in DOMAIN games
  /\ games[gameId].gamePhase = "playing"
  /\ games[gameId].currentPlayer = HUMAN
  /\ dest \in LegalSet(games[gameId].board, games[gameId].humanPos)

\* C1: makeHumanMove commits the move exactly when the session exists, is
\* Playing, it is the human's turn and the destination is a legal move from
\* humanPos; in every other case it fails and commits nothing.
C1_HumanMoveIff ==
  [][ lastCall'.op = "makeHumanMove" =>
        LET gameId == lastCall'.gameId
            dest == <<lastCall'.row, lastCall'.col>>
        IN  IF HumanMoveAllowed(activeGames, gameId, dest)
            THEN /\ lastCall'.error = "none"
                 /\ activeGames'[gameId].humanPos = dest
                 /\ At(activeGames'[gameId].board, dest) = HUMAN
                 /\ At(activeGames'[gameId].board, activeGames[gameId].humanPos) = BLOCKED
                 /\ Len(activeGames'[gameId].moveHistory)
                      = Len(activeGames[gameId].moveHistory) + 1
                 /\ LastOf(activeGames'[gameId].moveHistory).player = HUMAN
                 /\ LastOf(activeGames'[gameId].moveHistory).to = dest
            ELSE /\ lastCall'.error # "none"
                 /\ activeGames' = activeGames
                 /\ gameStats' = gameStats ]_vars

\* A human move was committed after the AI had moved.
C1_Witness ==
  /\ lastCall.op = "makeHumanMove"
  /\ lastCall.error = "none"
  /\ lastCall.gameId \in DOMAIN activeGames
  /\ Len(activeGames[lastCall.gameId].moveHistory) = 3
  /\ activeGames[lastCall.gameId].humanPos = <<lastCall.row, lastCall.col>>

\* The last call committed a move by `player` on session gameId.
Committed(gameId, player) ==
  /\ lastCall.gameId = gameId
  /\ lastCall.error = "none"
  /\ lastCall.op = (IF player = HUMAN THEN "makeHumanMove" ELSE "makeAIMove")
  /\ gameId \in DOMAIN activeGames
  /\ Len(activeGames[gameId].moveHistory) > 0
  /\ LastOf(activeGames[gameId].moveHistory).player = player

\* C2: after any committed move, if the side now to act has no legal move,
\* the session is Ended and the winner is the side that just moved, also
\* when neither side has a legal move.
C2_TerminationRule ==
  \A gameId \in DOMAIN activeGames, player \in {HUMAN, AI} :
    ( /\ Committed(gameId, player)
      /\ LegalSet(activeGames[gameId].board,
                  PosOf(activeGames[gameId], Other(player))) = {} )
    => ( /\ activeGames[gameId].gamePhase = "ended"
         /\ activeGames[gameId].winner = player )

\* The step is a successful undo, on the session the last call was on.
UndoStep ==
  /\ lastCall'.op = "undoLastMove"
  /\ lastCall'.error = "none"
  /\ lastCall'.gameId = lastCall.gameId
  /\ lastCall.gameId \in DOMAIN activeGames

\* C3: a human move that does not end the game, followed by undo, restores
\* board, humanPos, aiPos, phase and currentPlayer to what they were before
\* the move (the record undone is that move, never the initial placement,
\* so the exception for the placement does not apply).
C3_MoveUndoRoundTrip ==
  [][ ( /\ lastCall.op = "makeHumanMove"
        /\ lastCall.error = "none"
        /\ UndoStep
        /\ activeGames[lastCall.gameId].gamePhase = "playing"
        /\ LastOf(activeGames[lastCall.gameId].moveHistory).from # Null )
      => Core(activeGames'[lastCall.gameId]) = lastCall.before ]_vars

\* C4: from the state right after the placement, a human move, a software
\* move and an undo leave board and positions as the placement left them,
\* the phase Playing and the turn with the human.
C4_PairUndoRoundTrip ==
  [][ ( /\ lastCall.op = "makeAIMove"
        /\ lastCall.error = "none"
        /\ UndoStep
        /\ activeGames[lastCall.gameId].gamePhase = "playing"
        /\ Len(activeGames[lastCall.gameId].moveHistory) = 2
        /\ activeGames[lastCall.gameId].moveHistory[1].player = HUMAN
        /\ activeGames[lastCall.gameId].moveHistory[2].player = AI )
      => ( /\ Core(activeGames'[lastCall.gameId]) = placed[lastCall.gameId]
           /\ activeGames'[lastCall.gameId].gamePhase = "playing"
           /\ activeGames'[lastCall.gameId].currentPlayer = HUMAN ) ]_vars

\* The records before the last record of the human.
BeforeLastHuman(moveHistory) ==
  LET last == CHOOSE i \in 1 .. Len(moveHistory) :
                /\ moveHistory[i].player = HUMAN
                /\ \A j \in i + 1 .. Len(moveHistory) : moveHistory[j].player # HUMAN
  IN  SubSeq(moveHistory, 1, last - 1)

\* C5: a successful undo removes from the history the last record of the
\* human and every record after it, and no record before it.
C5_UndoRemoves ==
  [][ ( /\ lastCall'.op = "undoLastMove"
        /\ lastCall'.error = "none" )
      => activeGames'[lastCall'.gameId].moveHistory
           = BeforeLastHuman(activeGames[lastCall'.gameId].moveHistory) ]_vars

\* The four operations on a session.
SessionOps ==
  {"placeStartingPosition", "makeHumanMove", "makeAIMove", "undoLastMove"}

C8_PhaseTransitions ==
  [][ \A gameId \in DOMAIN activeGames' :
        IF gameId \notin DOMAIN activeGames
        THEN /\ lastCall'.op = "createGame"
             /\ activeGames'[gameId].gamePhase = "starting"
             /\ \A c \in Cells : At(activeGames'[gameId].board, c) = EMPTY
             /\ activeGames'[gameId].humanPos = Null
             /\ activeGames'[gameId].aiPos = Null
             /\ activeGames'[gameId].moveHistory = <<>>
             /\ activeGames'[gameId].currentPlayer = HUMAN
        ELSE LET old == activeGames[gameId].gamePhase
                 new == activeGames'[gameId].gamePhase
             IN  old # new =>
                   /\ lastCall'.gameId = gameId
                   /\ \/ /\ old = "starting" /\ new = "playing"
                         /\ lastCall'.op = "placeStartingPosition"
                      \/ /\ old = "playing" /\ new = "ended"
                         /\ lastCall'.op \in {"makeHumanMove", "makeAIMove"}
                      \/ /\ old = "playing" /\ new = "starting"
                         /\ lastCall'.op = "undoLastMove" ]_vars

\* An undo took a session from Playing back to Starting.
C8_Witness ==
  /\ lastCall.op = "undoLastMove"
  /\ lastCall.error = "none"
  /\ lastCall.before.gamePhase = "playing"
  /\ activeGames[lastCall.gameId].gamePhase = "starting"

\* C9: with the agents placed (Playing or Ended) the board holds exactly one
\* Human cell and one AI cell, at humanPos and aiPos, which differ; in
\* Starting it holds no agent cell and both positions are null.
C9_OneCellPerAgent ==
  \A gameId \in DOMAIN activeGames :
    LET g == activeGames[gameId]
    IN  IF g.gamePhase = "starting"
        THEN /\ CountCells(g.board, HUMAN) = 0
             /\ CountCells(g.board, AI) = 0
             /\ g.humanPos = Null
             /\ g.aiPos = Null
        ELSE /\ CountCells(g.board, HUMAN) = 1
             /\ CountCells(g.board, AI) = 1
             /\ g.humanPos # Null
             /\ g.aiPos # Null
             /\ At(g.board, g.humanPos) = HUMAN
             /\ At(g.board, g.aiPos) = AI
             /\ g.humanPos # g.aiPos

\* C10: getValidMoves returns exactly the cells that are in bounds, Empty
\* and one of the eight neighbours of the position, each once, and leaves
\* the board as it was.
C10_ValidMovesExact ==
  query.asked =>
    /\ Range(query.moves) = LegalSet(query.board, query.pos)
    /\ Len(query.moves) = Cardinality(LegalSet(query.board, query.pos))
    /\ query.after = query.board

\* Asked in a corner, with one of the three neighbours on the board not
\* Empty: two moves are returned.
C10_Witness ==
  /\ query.asked
  /\ query.pos = <<0, 0>>
  /\ At(query.board, <<1, 1>>) = BLOCKED
  /\ Len(query.moves) = 2

\* The precondition of a placement on pos in session gameId.
PlacementAllowed(games, gameId, pos) ==
  /\ gameId \in DOMAIN games
  /\ games[gameId].gamePhase = "starting"
  /\ pos \in Cells
  /\ At(games[gameId].board, pos) = EMPTY

\* C11: placeStartingPosition succeeds only in Starting on an Empty cell of
\* the board; then the human is on the cell given, the AI on the centre if
\* the centre is Empty and else (the human took the centre) on one of the
\* eight neighbours of the centre, the phase is Playing and the human is to
\* act.
C11_Placement ==
  [][ lastCall'.op = "placeStartingPosition" =>
        LET gameId == lastCall'.gameId
            pos == <<lastCall'.row, lastCall'.col>>
        IN  IF PlacementAllowed(activeGames, gameId, pos)
            THEN LET g == activeGames'[gameId]
                 IN  /\ lastCall'.error = "none"
                     /\ g.humanPos = pos
                     /\ At(g.board, pos) = HUMAN
                     /\ IF pos # CenterCell
                        THEN g.aiPos = CenterCell
                        ELSE g.aiPos \in Cells /\ Adjacent(CenterCell, g.aiPos)
                     /\ At(g.board, g.aiPos) = AI
                     /\ \A c \in Cells \ {pos, g.aiPos} : At(g.board, c) = EMPTY
                     /\ g.gamePhase = "playing"
                     /\ g.currentPlayer = HUMAN
            ELSE lastCall'.error # "none" ]_vars

\* The human was placed on the centre, the AI next to it.
C11_Witness ==
  /\ lastCall.op = "placeStartingPosition"
  /\ lastCall.error = "none"
  /\ activeGames[lastCall.gameId].humanPos = CenterCell
  /\ Adjacent(CenterCell, activeGames[lastCall.gameId].aiPos)

NoStuckSoftwareTurn ==
  \A gameId \in DOMAIN activeGames :
    (activeGames[gameId].gamePhase = "playing" /\ activeGames[gameId].currentPlayer = AI)
      => LegalSet(activeGames[gameId].board, activeGames[gameId].aiPos) # {}

\* C13: makeAIMove on a session that is Playing with the AI to move and no
\* legal move for the AI ends the session with the human as winner, appends
\* no record, leaves the board as it is and does not run the move chooser.
C13_StuckSoftwareLoses ==
  [][ ( /\ lastCall'.op = "makeAIMove"
        /\ lastCall'.gameId \in DOMAIN activeGames
        /\ activeGames[lastCall'.gameId].gamePhase = "playing"
        /\ activeGames[lastCall'.gameId].currentPlayer = AI
        /\ LegalSet(activeGames[lastCall'.gameId].board,
                    activeGames[lastCall'.gameId].aiPos) = {} )
      => LET old == activeGames[lastCall'.gameId]
             new == activeGames'[lastCall'.gameId]
         IN  /\ lastCall'.error = "none"
             /\ new.gamePhase = "ended"
             /\ new.winner = HUMAN
             /\ new.moveHistory = old.moveHistory
             /\ new.board = old.board
             /\ new.aiPos = old.aiPos
             /\ ~lastCall'.engine ]_vars

\* makeAIMove was called with the AI boxed in, and the session ended.
C13_Witness ==
  /\ lastCall.op = "makeAIMove"
  /\ lastCall.error = "none"
  /\ lastCall.before.gamePhase = "playing"
  /\ lastCall.before.currentPlayer = AI
  /\ LegalSet(lastCall.before.board, lastCall.before.aiPos) = {}
  /\ activeGames[lastCall.gameId].gamePhase = "ended"

---------------------------------------------------------------------------
(* The move chooser (SpecChoose).                                           *)

Candidates == Range(run.validMoves)

Returned == run.pc = "done"

\* C14: for every candidate list, evaluator and clock tried, the call of
\* enhancedMCTS comes to its return, and the move it returns is one of the
\* candidates it was given.
C14_ReturnsCandidate ==
  /\ [](Returned => run.bestMove \in Candidates)
  /\ <>Returned

\* A call that the deadline stopped before its first evaluation has returned.
C14_Witness ==
  /\ Returned
  /\ run.simulations = 0
  /\ Len(run.validMoves) > 1
  /\ run.bestMove \in Candidates

\* C15: with exactly one candidate the call returns that candidate, whatever
\* the evaluator answered and wherever the deadline fell.
C15_SingleCandidate ==
  (Returned /\ Len(run.validMoves) = 1) => run.bestMove = run.validMoves[1]

\* The single candidate was returned after evaluations that all gave 0 and
\* that the deadline cut short.
C15_Witness ==
  /\ Returned
  /\ Len(run.validMoves) = 1
  /\ run.bestMove = run.validMoves[1]
  /\ run.simulations > 0
  /\ run.simulations < maxSimulations
  /\ run.expired
  /\ run.evaluation = <<0, 1>>

\* The score the evaluator gives candidate i: its answer for the board the
\* candidate leads to.  It is the same in every round.
ScoreOf(i) ==
  evaluatePosition(
    simulateMove(activeGames[run.gameId], gameStats, run.validMoves[i]).game.board,
    run.nn)

\* The mean score of candidate i: the sum of its scores divided by its
\* visits, 0 without a visit.
MeanOf(i) == IF run.visits[i] > 0 THEN ScoreOf(i) ELSE <<0, 1>>

\* The first candidate, in the order of the list, that no candidate beats.
GreatestMean ==
  CHOOSE i \in 1 .. Len(run.validMoves) :
    /\ \A j \in 1 .. Len(run.validMoves) : ~FracGt(MeanOf(j), MeanOf(i))
    /\ \A j \in 1 .. i - 1 : FracGt(MeanOf(i), MeanOf(j))

\* C16: the call returns the candidate with the greatest mean score, the
\* first in the order of the list among those that tie for it; with the
\* same score for every candidate in every round, the first candidate.
C16_GreatestMean == Returned => run.bestMove = run.validMoves[GreatestMean]

\* The evaluator answers 1 for the board of one candidate, run.nn.fav, and
\* 0 for the board of every other candidate, in every round.
Favoured ==
  /\ run.nn.loaded
  /\ run.nn.outcome = "value"
  /\ run.nn.lo = <<0, 1>>
  /\ run.nn.hi = <<1, 1>>
  /\ run.nn.fav \in Candidates

FavouredIndex == CHOOSE i \in 1 .. Len(run.validMoves) : run.validMoves[i] = run.nn.fav

\* C17, as stated: with an evaluator that answers 1 for candidate A and 0
\* for every other candidate, the call returns A wherever A stands in the
\* list and whenever the deadline passes.
C17_FavouredAlways == (Returned /\ Favoured) => run.bestMove = run.nn.fav

\* C17, amended: with such an evaluator the call returns A if A was
\* evaluated at least once before the call stopped, wherever A stands in
\* the list; if the deadline stopped the call before the first evaluation
\* of A, it returns the first candidate of the list.
C17_FavouredOnceEvaluated ==
  (Returned /\ Favoured) =>
    run.bestMove = IF run.visits[FavouredIndex] > 0 THEN run.nn.fav
                   ELSE run.validMoves[1]

\* A, not the first candidate, was returned by a call the deadline stopped.
C17_Witness ==
  /\ Returned
  /\ Favoured
  /\ FavouredIndex > 1
  /\ run.visits[FavouredIndex] > 0
  /\ run.expired
  /\ run.simulations < maxSimulations
  /\ run.bestMove = run.nn.fav

\* C18: once maxSimulations evaluations have been made, or the deadline has
\* passed, the call makes no further evaluation (it neither goes on to the
\* next candidate nor starts a round), so that it never makes more than
\* maxSimulations evaluations.
C18_StopsAtLimits ==
  [][run'.simulations > run.simulations =>
       (run.simulations < maxSimulations /\ ~run.expired
          /\ run'.simulations <= maxSimulations)]_vars

\* The call taken step by step, with its floating-point sums, returns the
\* move of enhancedMCTS above whenever it stops with the same number of
\* visits for every candidate.
WholeRoundsAgree ==
  (Returned /\ run.nn.lo # ConstantScore
     /\ \A i \in 1 .. Len(run.visits) : run.visits[i] = run.visits[1])
    => run.bestMove = enhancedMCTS(activeGames[run.gameId], gameStats,
                                   run.validMoves, run.nn, run.simulations)

\* C19: a call of enhancedMCTS leaves the session it was called on (board,
\* positions, history, phase, winner, currentPlayer), the statistics and
\* the recorder as they were: every step of the call leaves the store and
\* the statistics unchanged and hands no game to the recorder, and the
\* session every simulated move was made on is flagged as a simulation.
C19_CanonicalUntouched ==
  [][run.pc # "idle" =>
       /\ activeGames' = activeGames
       /\ gameStats' = gameStats
       /\ run'.recorded = 0
       /\ (run'.simulations > run.simulations => run'.sim.isSimulation)]_vars

\* A simulated move ended the game on the clone, and the session is still
\* being played, without a winner, the statistics still at 0.
C19_Witness ==
  /\ run.pc = "done"
  /\ run.sim.isSimulation
  /\ run.sim.gamePhase = "ended"
  /\ run.sim.winner = HUMAN
  /\ activeGames[run.gameId].gamePhase = "playing"
  /\ activeGames[run.gameId].winner = NoWinner
  /\ activeGames[run.gameId].currentPlayer = AI
  /\ At(activeGames[run.gameId].board, run.bestMove) = EMPTY
  /\ gameStats = InitStats
  /\ run.recorded = 0

---------------------------------------------------------------------------
(* The evaluator (SpecEvaluate).                                            *)

\* C20: evaluatePosition returns a value (it does not throw) and the value
\* is in [0, 1], whether the learned model is not loaded, answers, throws
\* or does not answer in time.
C20_UnitInterval ==
  run.pc = "evaluated" =>
    /\ run.evaluation # Null
    /\ run.evaluation[2] > 0
    /\ run.evaluation[1] >= 0
    /\ run.evaluation[1] <= run.evaluation[2]

\* The learned model did not answer in time and the heuristic gave a value
\* strictly between 0 and 1.
C20_Witness ==
  /\ run.pc = "evaluated"
  /\ run.nn.loaded
  /\ run.nn.outcome = "timeout"
  /\ run.evaluation[1] > 0
  /\ run.evaluation[1] < run.evaluation[2]

\* The number of legal moves of the agent v on the board, counted without
\* the direction list: the Empty cells next to the cell that holds v (none
\* when no cell holds v).
MovesOf(board, v) ==
  LET S == {c \in Cells : At(board, c) = v}
  IN  IF S = {} THEN 0 ELSE Cardinality(LegalSet(board, CHOOSE c \in S : TRUE))

\* The heuristic value as the specification states it.
HeuristicValue(board) ==
  LET m_s == MovesOf(board, AI)
      m_h == MovesOf(board, HUMAN)
  IN  IF m_s = 0 THEN <<0, 1>>
      ELSE IF m_h = 0 THEN <<1, 1>>
      ELSE <<m_s, m_s + m_h>>

\* Two pairs <<num, den>> stand for the same number.
SameValue(x, y) == x # Null /\ y # Null /\ x[1] * y[2] = y[1] * x[2]

\* C21: whenever the learned model is not loaded, throws, or does not answer
\* within the timeout, evaluatePosition returns the heuristic value of the
\* board it was given.
C21_FallbackIsHeuristic ==
  ( /\ run.pc = "evaluated"
    /\ (~run.nn.loaded \/ run.nn.outcome \in {"throws", "timeout"}) )
  => SameValue(run.evaluation, HeuristicValue(run.board))

\* C22: the heuristic evaluator (evaluatePosition with the learned model
\* not loaded) returns 0 if the AI has no legal move (also when the human
\* has none), 1 if the AI has a move and the human has none, and otherwise
\* m_s / (m_s + m_h), with m_s and m_h the legal-move counts of the AI and
\* of the human.
C22_HeuristicValue ==
  (run.pc = "evaluated" /\ ~run.nn.loaded)
  => LET m_s == MovesOf(run.board, AI)
         m_h == MovesOf(run.board, HUMAN)
     IN  /\ m_s = 0 => run.evaluation = <<0, 1>>
         /\ (m_s > 0 /\ m_h = 0) => run.evaluation = <<1, 1>>
         /\ (m_s > 0 /\ m_h > 0) =>
              run.evaluation[1] * (m_s + m_h) = m_s * run.evaluation[2]

\* Both agents are on the board without a legal move and the heuristic
\* answered 0.
C22_Witness ==
  /\ run.pc = "evaluated"
  /\ ~run.nn.loaded
  /\ CountCells(run.board, AI) = 1
  /\ CountCells(run.board, HUMAN) = 1
  /\ MovesOf(run.board, AI) = 0
  /\ MovesOf(run.board, HUMAN) = 0
  /\ run.evaluation = <<0, 1>>

---------------------------------------------------------------------------
(* The Recorder (SpecRecord, SpecPersist).                                  *)

\* The count a table holds for a key: 0 for a key it does not hold.
CountOf(table, key) == IF key \in DOMAIN table THEN table[key] ELSE 0

\* The step is a call of recordMove.
RecordMoveStep == lastCall'.op = "recordMove"

\* C26: the observation buffer never holds more than 10,000 entries, and a
\* recordMove on a buffer that holds 10,000 removes its oldest entry and
\* puts the new observation at the tail, the other entries staying in the
\* order they arrived in.
C26_BoundedBuffer ==
  /\ [](BufferLength(experienceReplay.experienceBuffer) <= 10000)
  /\ [][(RecordMoveStep /\ BufferLength(experienceReplay.experienceBuffer) = 10000) =>
          LET before == experienceReplay.experienceBuffer
              after == experienceReplay'.experienceBuffer
              o == lastCall'.recordMove[1]
              last == BufferEntry(after, 10000)
          IN  /\ BufferLength(after) = 10000
              /\ \A i \in 1 .. 9999 :
                   BufferEntry(after, i) = BufferEntry(before, i + 1)
              /\ last.gameId = o.gameId
              /\ last.player = o.player
              /\ last.move = o.move
              /\ last.board = o.board
              /\ last.timestamp = now]_vars

\* Two observations were recorded on a buffer that was at most one entry
\* short of full: the buffer is full, its last two entries are the new
\* ones, and the oldest entry it started with is gone.
C26_Witness ==
  LET buffer == experienceReplay.experienceBuffer
  IN  /\ BufferLength(buffer) = 10000
      /\ BufferEntry(buffer, 10000).timestamp = 0
      /\ BufferEntry(buffer, 10000).player = HUMAN
      /\ BufferEntry(buffer, 9999).timestamp = 0
      /\ BufferEntry(buffer, 9999).player = AI
      /\ BufferEntry(buffer, 9998).timestamp = -1
      /\ BufferEntry(buffer, 1).timestamp = 2 - 10000

\* Markers (cells of either agent) on the board.
Markers(board) == CountCells(board, HUMAN) + CountCells(board, AI)

\* C27 as claimed: recordMove changes the pattern tables only for a move of
\* the human, and for a move of the human it increments the
\* starting-position entry of the destination exactly when at most 2
\* markers are on the recorded board.
C27_StartingPositions ==
  [][RecordMoveStep =>
       LET o == lastCall'.recordMove[1]
           before == experienceReplay.humanPatterns
           after == experienceReplay'.humanPatterns
       IN  /\ o.player # HUMAN => after = before
           /\ o.player = HUMAN =>
                CountOf(after.startingPositions, o.move) =
                  CountOf(before.startingPositions, o.move)
                    + (IF Markers(o.board) <= 2 THEN 1 ELSE 0)]_vars

\* C27 as amended: recordMove changes the pattern tables only for a move of
\* the human, and for a move of the human it increments the
\* starting-position entry of the destination exactly when the recorded
\* board is in its opening (fewer than 20% of its 49 cells Blocked, that is
\* at most 9) and at most 2 markers are on it.
C27_StartingInOpening ==
  [][RecordMoveStep =>
       LET o == lastCall'.recordMove[1]
           before == experienceReplay.humanPatterns
           after == experienceReplay'.humanPatterns
       IN  /\ o.player # HUMAN => after = before
           /\ o.player = HUMAN =>
                CountOf(after.startingPositions, o.move) =
                  CountOf(before.startingPositions, o.move)
                    + (IF CountCells(o.board, BLOCKED) <= 9 /\ Markers(o.board) <= 2
                       THEN 1 ELSE 0)]_vars

\* The human's move to the same cell was recorded twice, first on a board
\* in its opening and then on a board with ten cells Blocked, two markers
\* on each: the cell's starting-position count is 1.
C27_Witness ==
  LET buffer == experienceReplay.experienceBuffer
  IN  /\ BufferLength(buffer) = 2
      /\ buffer[1].player = HUMAN /\ buffer[2].player = HUMAN
      /\ buffer[1].move = buffer[2].move
      /\ CountCells(buffer[1].board, BLOCKED) = 0
      /\ CountCells(buffer[2].board, BLOCKED) = 10
      /\ Markers(buffer[1].board) = 2 /\ Markers(buffer[2].board) = 2
      /\ CountOf(experienceReplay.humanPatterns.startingPositions, buffer[1].move) = 1

\* The cell is on the edge of the board.
IsEdge(c) == c[1] = 0 \/ c[1] = 6 \/ c[2] = 0 \/ c[2] = 6

\* The AI's marker is within Manhattan distance 2 of the cell.
SoftwareNear(board, c) ==
  \E a \in Cells :
    At(board, a) = AI /\ Abs(a[1] - c[1]) + Abs(a[2] - c[2]) <= 2

\* C28: for a move of the human, recordMove increments the trap-attempt
\* entry keyed by the destination exactly when the destination is an edge
\* cell and the AI's cell is within Manhattan distance 2 of it.
C28_TrapAttempts ==
  [][(RecordMoveStep /\ lastCall'.recordMove[1].player = HUMAN) =>
       LET o == lastCall'.recordMove[1]
           key == <<"trap", o.move[1], o.move[2]>>
       IN  CountOf(experienceReplay'.humanPatterns.trapAttempts, key) =
             CountOf(experienceReplay.humanPatterns.trapAttempts, key)
               + (IF IsEdge(o.move) /\ SoftwareNear(o.board, o.move)
                  THEN 1 ELSE 0)]_vars

\* C29: the pattern tables survive a restart: when the process has started,
\* the Recorder the engine hands its observations to holds the counts of
\* the patterns file, and no write of the patterns file lowers a count the
\* file held.
C29_PatternsSurviveRestart ==
  /\ [][lastCall'.op = "initialize" =>
          experienceReplay'.humanPatterns =
            loadPatterns(NewExperienceReplay, patternsFile').humanPatterns]_vars
  /\ [][\A table \in DOMAIN NoPatterns :
          \A key \in DOMAIN patternsFile.patterns[table] :
            CountOf(patternsFile'.patterns[table], key)
              >= patternsFile.patterns[table][key]]_vars

---------------------------------------------------------------------------
(* Moves and games handed to the Recorder.                                 *)

\* The step is a call that pushed one record on the history of session
\* gameId: a move was committed on it.
CommittedStep(gameId) ==
  /\ lastCall'.gameId = gameId
  /\ lastCall'.error = "none"
  /\ gameId \in DOMAIN activeGames /\ gameId \in DOMAIN activeGames'
  /\ Len(activeGames'[gameId].moveHistory)
       = Len(activeGames[gameId].moveHistory) + 1

BecomesEnded(gameId) ==
  /\ gameId \in DOMAIN activeGames'
  /\ activeGames'[gameId].gamePhase = "ended"
  /\ ~(gameId \in DOMAIN activeGames
         /\ activeGames[gameId].gamePhase = "ended")

\* C24: the step in which a session becomes Ended makes exactly one call of
\* recordGame, for that session, and adds 1 to totalGames and 1 to the
\* counter of its winner and nothing to the other; a session that is Ended
\* stays Ended, and a step in which no session becomes Ended (among them
\* the software's moves, whose chooser ends games on clones) makes no call
\* of recordGame and leaves the statistics as they are.
C24_EndedCountedOnce ==
  [][ /\ \A gameId \in GameIds :
           BecomesEnded(gameId) =>
             LET winner == activeGames'[gameId].winner
             IN  /\ winner \in {HUMAN, AI}
                 /\ lastCall'.recordGame =
                      << [id |-> gameId, winner |-> winner,
                          gameLength |->
                            Len(activeGames'[gameId].moveHistory)] >>
                 /\ gameStats'.totalGames = gameStats.totalGames + 1
                 /\ gameStats'.humanWins =
                      gameStats.humanWins + (IF winner = HUMAN THEN 1 ELSE 0)
                 /\ gameStats'.aiWins =
                      gameStats.aiWins + (IF winner = AI THEN 1 ELSE 0)
      /\ (~ \E gameId \in GameIds : BecomesEnded(gameId)) =>
           /\ lastCall'.recordGame = <<>>
           /\ gameStats' = gameStats
      /\ \A gameId \in DOMAIN activeGames :
           activeGames[gameId].gamePhase = "ended" =>
             /\ gameId \in DOMAIN activeGames'
             /\ activeGames'[gameId].gamePhase = "ended" ]_vars

\* A session has just ended and been handed to the Recorder, and a call
\* made after a game was counted left the count alone.
C24_Witness ==
  \E gameId \in DOMAIN activeGames :
    /\ lastCall.gameId = gameId
    /\ activeGames[gameId].gamePhase = "ended"
    /\ Len(lastCall.recordGame) = 1
    /\ lastCall.recordGame[1].id = gameId
    /\ gameStats.totalGames = 1

---------------------------------------------------------------------------
(* The sweep.                                                              *)

\* The step is a run of the sweep.
SweepStep == lastCall'.op = "cleanupOldGames"

\* Session gameId was made and is no longer in the store.
Removed(gameId) == gameId < nextId /\ gameId \notin DOMAIN activeGames

\* C25: the sweep removes exactly the sessions made more than one hour
\* (3,600,000 ms) before it runs, whatever their phase; the sessions it
\* keeps and the statistics are as they were; and from then on every
\* placeStartingPosition, makeHumanMove, makeAIMove and undoLastMove on a
\* removed identifier fails and changes nothing, and the identifier never
\* names a session again.
C25_SweepRemovesStale ==
  /\ [][ SweepStep =>
           /\ DOMAIN activeGames' =
                {gameId \in DOMAIN activeGames :
                   now - activeGames[gameId].createdAt <= oneHour}
           /\ \A gameId \in DOMAIN activeGames' :
                activeGames'[gameId] = activeGames[gameId]
           /\ gameStats' = gameStats ]_vars
  /\ [][ \A gameId \in SweepIds :
           Removed(gameId) =>
             /\ gameId \notin DOMAIN activeGames'
             /\ (lastCall'.op \in SessionOps /\ lastCall'.gameId = gameId) =>
                  /\ lastCall'.error # "none"
                  /\ activeGames' = activeGames
                  /\ gameStats' = gameStats ]_vars

\* The sweep has just removed the session that had ended and been counted,
\* and kept a younger one that is being played.
C25_Witness ==
  /\ lastCall.op = "cleanupOldGames"
  /\ \E gameId \in SweepIds : Removed(gameId)
  /\ gameStats.totalGames = 1
  /\ \A gameId \in DOMAIN activeGames : activeGames[gameId].gamePhase # "ended"
  /\ \E gameId \in DOMAIN activeGames : activeGames[gameId].gamePhase = "playing"

---------------------------------------------------------------------------
(* What ends a game.                                                       *)

\* C30: after a committed move, if the side now to act has a legal move
\* the session is Playing and has no winner, also when the side that moved
\* has no legal move from the cell it moved to.
C30_OnlyTerminationRule ==
  \A gameId \in DOMAIN activeGames, player \in {HUMAN, AI} :
    ( /\ Committed(gameId, player)
      /\ LegalSet(activeGames[gameId].board,
                  PosOf(activeGames[gameId], Other(player))) # {} )
    => ( /\ activeGames[gameId].gamePhase = "playing"
         /\ activeGames[gameId].winner = NoWinner )

---------------------------------------------------------------------------
(* What a committed move and an undo change.                               *)

C32_UndoFrame ==
  [][ \A gameId \in GameIds :
        ( /\ lastCall'.op = "undoLastMove" /\ lastCall'.error = "none"
          /\ lastCall'.gameId = gameId )
        => LET before == activeGames[gameId]
               after == activeGames'[gameId]
               last == CHOOSE i \in 1 .. Len(before.moveHistory) :
                         /\ before.moveHistory[i].player = HUMAN
                         /\ \A j \in (i + 1) .. Len(before.moveHistory) :
                              before.moveHistory[j].player # HUMAN
               source == before.moveHistory[last].from
               dest == before.moveHistory[last].to
           IN  IF Len(after.moveHistory) > 0
               THEN /\ At(after.board, dest) = EMPTY
                    /\ At(after.board, source) = HUMAN
                    /\ after.humanPos = source
                    /\ after.currentPlayer = HUMAN
                    /\ after.gamePhase = "playing"
                    /\ after.aiPos = before.aiPos
                    /\ \A c \in Cells \ {source, dest} :
                         At(after.board, c) = At(before.board, c)
               ELSE /\ after.gamePhase = "starting"
                    /\ \A c \in Cells : At(after.board, c) = EMPTY
                    /\ after.humanPos = Null /\ after.aiPos = Null
                    /\ after.currentPlayer = HUMAN ]_vars

\* An undo has taken back the human's second move: a record is left, the
\* human is back on the cell the first move reached, and the software is
\* where its answer put it.
C32_Witness ==
  \E gameId \in DOMAIN activeGames :
    LET game == activeGames[gameId]
    IN  /\ lastCall.op = "undoLastMove" /\ lastCall.error = "none"
        /\ lastCall.gameId = gameId
        /\ Len(game.moveHistory) > 0
        /\ game.gamePhase = "playing"
        /\ game.humanPos = LastOf(game.moveHistory).to
        /\ At(game.board, game.humanPos) = HUMAN
        /\ At(game.board, game.aiPos) = AI
        /\ game.aiPos # CenterCell

---------------------------------------------------------------------------
(* The chooser on a single candidate.                                      *)

\* C33: while the chooser works on a candidate list of exactly one member
\* it makes no simulation clone and no call of the evaluator: from its
\* start to the move it returns, no simulation is counted, no clone has
\* been played on and no evaluation has been received.
C33_SingleCandidateImmediate ==
  Len(run.validMoves) = 1
    => /\ run.simulations = 0
       /\ run.sim = NoSim
       /\ run.evaluation = Null
       /\ run.visits[1] = 0

---------------------------------------------------------------------------
(* The shape of the history.                                               *)

\* C34: the history of every session begins with a record of the human
\* and alternates between the two agents: no two consecutive records are
\* by the same agent, undos and the moves after them included.
C34_HistoryAlternates ==
  \A gameId \in DOMAIN activeGames :
    LET moveHistory == activeGames[gameId].moveHistory
    IN  /\ Len(moveHistory) > 0 => moveHistory[1].player = HUMAN
        /\ \A i \in 1 .. Len(moveHistory) - 1 :
             moveHistory[i + 1].player # moveHistory[i].player

\* C35: whenever the history of a session is not empty, the board stored
\* in its last record is the session's board and the session has as many
\* Blocked cells as records, after moves and after undo.
C35_SnapshotIsBoard ==
  \A gameId \in DOMAIN activeGames :
    LET game == activeGames[gameId]
    IN  Len(game.moveHistory) > 0 =>
          /\ LastOf(game.moveHistory).board = game.board
          /\ CountCells(game.board, BLOCKED) = Len(game.moveHistory)

---------------------------------------------------------------------------
(* Both agents can move while a game is played.                            *)

\* C36: with calls handled one at a time, in every session that is
\* Playing both agents have a legal move; so makeAIMove never takes the
\* branch for a software agent without legal moves (a successful call
\* always went through the chooser), and undo never fails with "No human
\* moves to undo".
C36_BothCanMove ==
  /\ \A gameId \in DOMAIN activeGames :
       activeGames[gameId].gamePhase = "playing" =>
         /\ LegalSet(activeGames[gameId].board,
                     activeGames[gameId].humanPos) # {}
         /\ LegalSet(activeGames[gameId].board,
                     activeGames[gameId].aiPos) # {}
  /\ (lastCall.op = "makeAIMove" /\ lastCall.error = "none")
       => lastCall.engine
  /\ lastCall.error # "No human moves to undo"

\* The human has walked into the corner and the software has answered
\* elsewhere: the game goes on, the human with a single legal move left.
C36_Witness ==
  \E gameId \in DOMAIN activeGames :
    LET game == activeGames[gameId]
    IN  /\ lastCall.op = "makeAIMove" /\ lastCall.gameId = gameId
        /\ lastCall.engine
        /\ game.gamePhase = "playing"
        /\ Len(game.moveHistory) = 4
        /\ Cardinality(LegalSet(game.board, game.humanPos)) = 1
        /\ LegalSet(game.board, game.aiPos) # {}

---------------------------------------------------------------------------
(* Overlapping requests on one session.                                    *)

\* C37: also when requests on a session overlap, every software move is
\* committed to a session that is then Playing with the software to act,
\* and its destination is a legal move of the software from the cell it
\* is on then; so the software never moves twice in a row and never sets
\* a marker on a session that is Starting.
C37_CommitRechecked ==
  lastCall.op = "makeAIMove" =>
    /\ lastCall.before.gamePhase = "playing"
    /\ lastCall.before.currentPlayer = AI
    /\ <<lastCall.row, lastCall.col>>
         \in LegalSet(lastCall.before.board, lastCall.before.aiPos)

\* C38: also when requests on a session overlap, the game of a session is
\* ended once: the games counted never outnumber the sessions, each
\* counted for one winner, and a call on a session that is already Ended
\* hands no game to the Recorder.
C38_EndedOnceOverlapped ==
  /\ gameStats.totalGames <= Len(activeGames)
  /\ gameStats.humanWins + gameStats.aiWins <= Len(activeGames)
  /\ lastCall.before.gamePhase = "ended" => lastCall.recordGame = <<>>

---------------------------------------------------------------------------
(* Games without undo end.                                                 *)

\* Sessions are created, started and played, and no move is taken back.
SpecForward ==
  Init /\ [][CreateGame \/ PlayPlace \/ PlayHumanMove \/ PlayAIMove]_vars

---------------------------------------------------------------------------
(* What the chooser is called on.                                          *)

\* C40: every call of the chooser, the hint's included, is made on a
\* session that is Playing, with the software's legal moves as candidate
\* list: for a hint the candidates are the Empty cells next to the
\* software's marker, and a move the software commits is one of them.
C40_ChooserOnSoftwareMoves ==
  lastCall.engine =>
    /\ lastCall.before.gamePhase = "playing"
    /\ IF lastCall.op = "suggestMove"
       THEN Range(query.moves)
              = LegalSet(lastCall.before.board, lastCall.before.aiPos)
       ELSE /\ lastCall.before.currentPlayer = AI
            /\ activeGames[lastCall.gameId].aiPos
                 \in LegalSet(lastCall.before.board, lastCall.before.aiPos)

====
